---- MODULE Spec2Model ----
(***************************************************************************)
(* fetcharoo: the recursive crawl engine (find_pdfs_from_webpage) and the  *)
(* robots.txt cache (check_robots_txt) of src/fetcharoo/fetcharoo.py.      *)
(*                                                                         *)
(* A URL is a record of token sequences (scheme, netloc, path, query); the *)
(* string operations of the code (lower, split, endswith, ==) are computed *)
(* on the tokens.  The recursion of find_pdfs_from_webpage is an explicit  *)
(* stack of frames.  What the servers answer is drawn when it is used: the *)
(* outcome of a GET when it is issued, each anchor of a page when the      *)
(* anchor loop reaches it.                                                 *)
(***************************************************************************)
EXTENDS Integers, Sequences, FiniteSets, TLC

\* ------------------------------------------------------------------ bounds
\* anchors served to one crawl, all pages together
MaxAnchors == 3
\* largest recursion_depth a caller asks for on the free site
MaxDepth == 2
\* Disallow rules in one robots.txt body
MaxRules == 1
\* standalone check_robots_txt calls in a row
MaxCalls == 3
\* largest max_retries a download_pdf call is given
MaxRetries == 6
\* longest URL list given to process_pdfs
MaxLinks == 3
\* downloads and saves that go wrong in one process_pdfs call
MaxFaults == 1

\* --------------------------------------------------------- program constants
MAX_RECURSION_DEPTH == 5
\* DEFAULT_REQUEST_DELAY is 0.5 s; delays are counted in tenths of a second
DEFAULT_REQUEST_DELAY == 5

\* Python's None, for a set of domains and for a set of URLs
NoDomains == {<<"None">>}
NoUrls == {"None"}

\* ------------------------------------------------------------------- URLs
AB == <<"a", ".", "b">>
CD == <<"c", ".", "d">>

Url(s, n, p, q) ==
  [scheme |-> s, netloc |-> n, path |-> p, query |-> q, error |-> FALSE]

\* urlparse raised ValueError
ValueError == [Url("", <<>>, <<>>, <<>>) EXCEPT !.error = TRUE]

\* The URLs of the modelled web.  R, P1, C1..C7 are pages of host a.b; P2 is
\* a page of the sub-domain X.A.B:80; E is a page of host c.d; D1 and DX are
\* PDF links (a.b and c.d); F has the ftp scheme; DQ is D1 with a query
\* string, PQ is P1 with a query string that ends in .pdf.
SiteUrls ==
     [ R  |-> Url("http", AB, <<"/">>, <<>>),
       P1 |-> Url("http", AB, <<"/", "p1">>, <<>>),
       P2 |-> Url("http", <<"X", ".", "A", ".", "B", ":", "80">>, <<"/", "p2">>, <<>>),
       E  |-> Url("http", CD, <<"/", "e">>, <<>>),
       D1 |-> Url("http", AB, <<"/", "d1", ".pdf">>, <<>>),
       DX |-> Url("https", CD, <<"/", "x", ".PDF">>, <<>>),
       F  |-> Url("ftp", AB, <<"/", "f", ".pdf">>, <<>>),
       C1 |-> Url("http", AB, <<"/", "c1">>, <<>>),
       C2 |-> Url("http", AB, <<"/", "c2">>, <<>>),
       C3 |-> Url("http", AB, <<"/", "c3">>, <<>>),
       C4 |-> Url("http", AB, <<"/", "c4">>, <<>>),
       C5 |-> Url("http", AB, <<"/", "c5">>, <<>>),
       C6 |-> Url("http", AB, <<"/", "c6">>, <<>>),
       C7 |-> Url("http", AB, <<"/", "c7">>, <<>>),
       DQ |-> Url("http", AB, <<"/", "d1", ".pdf">>, <<"v", "=", "2">>),
       PQ |-> Url("http", AB, <<"/", "p1">>, <<"f", "=", "x", ".pdf">>) ]

\* links a page of the free site may carry
Links == {"R", "P1", "P2", "E", "D1", "DX", "F"}
AllUrls == DOMAIN SiteUrls

\* the fixed chain site: R -> C1 -> ... -> C7, a PDF on every second page
ChainSite == [ R  |-> <<"D1", "C1">>, C1 |-> <<"C2">>, C2 |-> <<"C3", "DX">>,
               C3 |-> <<"C4">>, C4 |-> <<"C5">>, C5 |-> <<"D1", "C6">>,
               C6 |-> <<"C7">>, C7 |-> <<"DX">> ]

\* the fixed query site: the root links to http://a.b/d1.pdf?v=2, to
\* http://a.b/p1?f=x.pdf and to http://a.b/d1.pdf
QuerySite == [ R |-> <<"DQ", "PQ", "D1">>, DQ |-> <<>>, PQ |-> <<>> ]

\* the fixed detour site: C2 is one link from the root and also two links
\* from it through C1, which the root names first; C3, two links from the
\* root, carries a PDF
DetourSite == [ R |-> <<"C1", "C2">>, C1 |-> <<"C2">>, C2 |-> <<"C3">>,
                C3 |-> <<"D1">> ]

\* the fixed sites by name
FixedSites == [chain |-> ChainSite, query |-> QuerySite, detour |-> DetourSite]

\* --------------------------------------------------------------- strings
Range(s) == {s[i] : i \in DOMAIN s}

SeqsUpTo(S, n) == UNION {[1..k -> S] : k \in 0..n}

\* str.lower() on one token
Lower(t) ==
  CASE t = "A" -> "a"
    [] t = "B" -> "b"
    [] t = "X" -> "x"
    [] t = "D" -> "d"
    [] t = ".PDF" -> ".pdf"
    [] t = "HTTP" -> "http"
    [] OTHER -> t

LowerSeq(s) == [i \in DOMAIN s |-> Lower(s[i])]

\* str.endswith
EndsWith(s, suf) ==
  /\ Len(s) >= Len(suf)
  /\ SubSeq(s, Len(s) - Len(suf) + 1, Len(s)) = suf

\* s.split(':')[0]
SplitColonHead(s) ==
  LET cut == {i \in DOMAIN s : s[i] = ":"}
  IN IF cut = {} THEN s
     ELSE SubSeq(s, 1, (CHOOSE i \in cut : \A j \in cut : i <= j) - 1)

\* Strings given to is_valid_url and is_safe_domain, as their characters
\* (a token stands for a run of letters or digits, or for one delimiter).
Inputs ==
  [ I_plain  |-> <<"http", ":", "//", "a", ".", "b", "/", "p">>,
    I_sub    |-> <<"https", ":", "//", "X", ".", "A", ".", "B", ":", "80", "/", "p">>,
    I_not    |-> <<"http", ":", "//", "not", "a", ".", "b", "/">>,
    I_user   |-> <<"http", ":", "//", "user", "@", "a", ".", "b", "/">>,
    I_pw     |-> <<"http", ":", "//", "a", ".", "b", ":", "pw", "@", "c", ".", "d", "/">>,
    I_other  |-> <<"https", ":", "//", "c", ".", "d">>,
    I_query  |-> <<"http", ":", "//", "a", ".", "b", "?", "q", "#", "h">>,
    I_upper  |-> <<"HTTP", ":", "//", "A", ".", "B", "/">>,
    I_port   |-> <<"http", ":", "//", ":", "80", "/", "p">>,
    I_nohost |-> <<"http", ":", "//">>,
    I_path   |-> <<"http", ":", "/", "a", ".", "b">>,
    I_ftp    |-> <<"ftp", ":", "//", "a", ".", "b", "/", "f", ".pdf">>,
    I_file   |-> <<"file", ":", "//", "/", "etc">>,
    I_js     |-> <<"javascript", ":", "alert">>,
    I_data   |-> <<"data", ":", "text", "/", "html">>,
    I_bare   |-> <<"a", ".", "b", "/", "p">>,
    I_rel    |-> <<"//", "a", ".", "b", "/", "p">>,
    I_empty  |-> <<>>,
    I_ipv6   |-> <<"http", ":", "//", "[", ":", ":", "1", "]", ":", "80", "/">>,
    I_bad    |-> <<"http", ":", "//", "[", ":", ":", "1">> ]

\* the characters that cannot be part of a scheme
Delimiters == {":", "//", "/", "?", "#", "@", "[", "]"}

\* the first position of seq that holds one of the tokens, Len(seq) + 1 if
\* there is none
FirstOf(seq, tokens) ==
  LET hits == {i \in DOMAIN seq : seq[i] \in tokens}
  IN IF hits = {} THEN Len(seq) + 1
     ELSE CHOOSE i \in hits : \A j \in hits : i <= j

\* urlsplit, last step: the query of what follows the path, up to a '#'
QueryOf(afterPath) ==
  IF afterPath # <<>> /\ afterPath[1] = "?"
    THEN SubSeq(afterPath, 2, FirstOf(afterPath, {"#"}) - 1)
    ELSE <<>>

\* urlsplit, after the netloc: ValueError when the netloc has one of '[' and
\* ']' without the other, else the path up to the first '?' or '#' and the
\* query
SplitPath(scheme, netloc, tail, pathEnd) ==
  IF ("[" \in Range(netloc)) # ("]" \in Range(netloc))
    THEN ValueError
    ELSE Url(scheme, netloc, SubSeq(tail, 1, pathEnd - 1),
             QueryOf(SubSeq(tail, pathEnd, Len(tail))))

\* urlsplit, the netloc: what stands before the first '/', '?' or '#'
SplitNetloc(scheme, after, stop) ==
  SplitPath(scheme, SubSeq(after, 1, stop - 1),
            SubSeq(after, stop, Len(after)),
            FirstOf(SubSeq(after, stop, Len(after)), {"?", "#"}))

\* urlsplit, after the scheme: a netloc follows '//' only
SplitRest(scheme, rest, hasNetloc) ==
  SplitNetloc(scheme, IF hasNetloc THEN Tail(rest) ELSE rest,
              IF hasNetloc THEN FirstOf(Tail(rest), {"/", "?", "#"}) ELSE 1)

\* urlsplit, the scheme: lower-cased, and what follows its ':'
SplitScheme(s, hasScheme) ==
  SplitRest(IF hasScheme THEN Lower(s[1]) ELSE "",
            IF hasScheme THEN SubSeq(s, 3, Len(s)) ELSE s,
            IF hasScheme THEN Len(s) >= 3 /\ s[3] = "//"
                         ELSE s # <<>> /\ s[1] = "//")

\* urllib.parse.urlparse on a string whose scheme, if any, is one token:
\* the lower-cased scheme before the first ':', the netloc after '//' up to
\* the next '/', '?' or '#', the path, the query; ValueError when the
\* netloc has one of '[' and ']' without the other
urlparse(s) ==
  SplitScheme(s, FirstOf(s, {":"}) = 2 /\ s[1] \notin Delimiters)

\* the URLs of the model, parsed
U ==
  [u \in DOMAIN SiteUrls \cup DOMAIN Inputs |->
     IF u \in DOMAIN SiteUrls THEN SiteUrls[u] ELSE urlparse(Inputs[u])]

\* the URL as the string the code holds
FullString(u) ==
  <<U[u].scheme, "://">> \o U[u].netloc \o U[u].path
    \o (IF U[u].query = <<>> THEN <<>> ELSE <<"?">> \o U[u].query)

\* ------------------------------------------------------------- URL policy
is_valid_url(u) ==
  IF U[u].error THEN FALSE
  ELSE IF U[u].scheme \notin {"http", "https"} THEN FALSE
  ELSE U[u].netloc # <<>>

\* `domain == allowed or domain.endswith('.' + allowed)`, allowed lower-cased
DomainMatches(domain, allowed) ==
  domain = LowerSeq(allowed) \/ EndsWith(domain, <<".">> \o LowerSeq(allowed))

is_safe_domain(u, allowed) ==
  IF allowed = NoDomains THEN TRUE
  ELSE IF U[u].error THEN FALSE
  ELSE LET domain == SplitColonHead(LowerSeq(U[u].netloc))
       IN \E al \in allowed : DomainMatches(domain, al)

\* link.lower().endswith('.pdf')
IsPdfLink(u) == EndsWith(LowerSeq(FullString(u)), <<".pdf">>)

\* ----------------------------------------------------------- robots cache
Agents == {"bot", "other"}

\* f"{parsed_url.scheme}://{parsed_url.netloc}"
RobotsDomain(u) == <<U[u].scheme, "://">> \o U[u].netloc

\* URLs a Disallow rule may name
RuleUrls == {"D1", "DX", "P1"}

\* A parsed robots.txt: the (user agent, URL) pairs it disallows.  The
\* robots.txt of a domain names URLs of that domain.
RuleSets(domain) ==
  {r \in SUBSET (Agents \X {v \in RuleUrls : RobotsDomain(v) = domain}) :
     Cardinality(r) <= MaxRules}

\* a parser that refuses everything (a RobotFileParser that never parsed)
RefuseAll == Agents \X RuleUrls

\* rp.parse([]): no rule, everything allowed
Permissive == {}

\* What the GET of robots.txt does: status 200 with a body, another status,
\* a requests.exceptions.RequestException, or any other exception.
RobotsOutcomes(domain) ==
  {[kind |-> "200", rules |-> r] : r \in RuleSets(domain)}
    \cup {[kind |-> k, rules |-> Permissive] : k \in {"status", "reqexc", "exc"}}

NoOutcome == [kind |-> "cached", rules |-> Permissive]

\* rp.can_fetch(user_agent, url)
can_fetch(rp, agent, u) == <<agent, u>> \notin rp

\* the outcomes a call can meet: a request is issued only on a cache miss
OutcomesFor(u, cache) ==
  IF RobotsDomain(u) \in DOMAIN cache THEN {NoOutcome}
  ELSE RobotsOutcomes(RobotsDomain(u))

Event(ev, arg, info) == [ev |-> ev, arg |-> arg, info |-> info]

StoreParserAlways(cache, domain, o) == cache @@ (domain :> o.rules)

StoreParserOn200Only(cache, domain, o) ==
  IF o.kind = "200" THEN cache @@ (domain :> o.rules) ELSE cache

\* The parser a fetch that ended as o leaves in the cache: the parsed body
\* on status 200, the parser of an empty file on another status and on a
\* RequestException; nothing is stored when another exception is raised.
StoreParser(cache, domain, o) ==
  CASE o.kind = "200" -> cache @@ (domain :> o.rules)
    [] o.kind \in {"status", "reqexc"} -> cache @@ (domain :> Permissive)
    [] OTHER -> cache

\* user_agent=None, which a caller may pass instead of a string
NoAgent == "None"

\* rp.can_fetch(user_agent, url) raises: entry.applies_to splits the user
\* agent as soon as the parser holds an entry
CanFetchRaises(rp, agent) == agent = NoAgent /\ rp # {}

\* lines 248-255: the query on the parser, or True from the outer handler
RobotsAnswer(u, agent, cache, o, domain, after, raised) ==
  [ret |-> IF raised \/ domain \notin DOMAIN after THEN TRUE
           ELSE can_fetch(after[domain], agent, u),
   cache |-> after,
   events |-> IF domain \in DOMAIN cache THEN <<>>
              ELSE <<Event("robots", domain, o.kind)>>,
   raised |-> raised]

\* does the outer handler catch an exception: out of the request or the
\* parsing of its body, or out of can_fetch
RobotsRaised(u, agent, cache, o, domain, after) ==
  RobotsAnswer(u, agent, cache, o, domain, after,
               \/ domain \notin DOMAIN cache /\ o.kind = "exc"
               \/ domain \in DOMAIN after /\ CanFetchRaises(after[domain], agent))

\* lines 213-246: the parser of the cache, or the one fetched and stored
RobotsParser(u, agent, cache, o, domain) ==
  RobotsRaised(u, agent, cache, o, domain,
               IF domain \in DOMAIN cache THEN cache
               ELSE StoreParser(cache, domain, o))

\* check_robots_txt(url, user_agent) on cache `cache`, the request (if one is
\* issued) ending as `o`: the value returned, the cache afterwards, the
\* request issued, and whether the outer handler caught an exception.
check_robots_txt(u, agent, cache, o) ==
  RobotsParser(u, agent, cache, o, RobotsDomain(u))

\* ------------------------------------------------------------------ state
VARIABLES
  cfg,             \* the arguments of the top-level call
  pc,              \* "idle", "running", "done", "raised"; "api" in SpecRobots
  stack,           \* the frames of find_pdfs_from_webpage, innermost last
  visited,         \* the visited set shared by the whole crawl
  seen_pdfs,       \* the _seen_pdfs set, or None
  allowed_domains, \* the allowed_domains set shared by the whole crawl
  robots_cache,    \* _robots_cache: domain -> parsed rules
  result,          \* the list the top-level call returned
  log,             \* every request and sleep, in order
  served,          \* the (page, anchors) pairs of the successful fetches
  discovered,      \* the PDF links met and not refused by robots, in order
  checks,          \* every check_robots_txt call: url, agent, value returned
  failed,          \* the pages whose GET raised
  budget,          \* anchors the servers may still serve
  dl,              \* the download_pdf call in progress
  pp,              \* the process_pdfs call in progress
  disk,            \* the files of the write directory: name -> pages
  web,             \* the download_pdfs_from_webpage call in progress
  call,            \* the call of a helper function in progress
  SCHEMAS          \* _SCHEMAS, the schema registry: its entries in the order
                   \* of the dictionary

vars == <<cfg, pc, stack, visited, seen_pdfs, allowed_domains, robots_cache,
          result, log, served, discovered, checks, failed, budget,
          dl, pp, disk, web, call, SCHEMAS>>

\* the variables of the crawl
crawlVars == <<cfg, stack, visited, seen_pdfs, allowed_domains, robots_cache,
               result, served, discovered, checks, failed, budget>>

\* the variables of download_pdf, process_pdfs, download_pdfs_from_webpage
\* and the helper functions
fileVars == <<dl, pp, disk, web, call, SCHEMAS>>

\* no download_pdf or process_pdfs call is in progress, nothing is on disk
NoFiles ==
  /\ dl = [pc |-> "none"]
  /\ pp = [pc |-> "none"]
  /\ disk = <<>>
  /\ web = [pc |-> "none"]
  /\ call = [pc |-> "none"]
  /\ SCHEMAS = <<>>

\* The top-level calls: any flags and depth on the free site, any depth up to
\* two above the ceiling on the chain site.
FreeConfigs ==
  [url : {"R", "F"}, recursion_depth : 0..MaxDepth,
   allowed_domains : {NoDomains, {<<"A", ".", "B">>, CD}, {CD}, {}},
   respect_robots : BOOLEAN, deduplicate : BOOLEAN,
   request_delay : {DEFAULT_REQUEST_DELAY}, user_agent : {"bot"},
   site : {"free"}]

ChainConfigs ==
  [url : {"R"}, recursion_depth : 0..(MAX_RECURSION_DEPTH + MaxDepth),
   allowed_domains : {NoDomains},
   respect_robots : {FALSE}, deduplicate : BOOLEAN,
   request_delay : {0, DEFAULT_REQUEST_DELAY}, user_agent : {"bot"},
   site : {"chain"}]

\* the top-level calls on the query site and the detour site
SmallSiteConfigs ==
  [url : {"R"}, recursion_depth : 0..MaxDepth,
   allowed_domains : {NoDomains},
   respect_robots : {FALSE}, deduplicate : BOOLEAN,
   request_delay : {DEFAULT_REQUEST_DELAY}, user_agent : {"bot"},
   site : {"query", "detour"}]

Quiet ==
  /\ stack = <<>>
  /\ visited = {}
  /\ seen_pdfs = NoUrls
  /\ allowed_domains = NoDomains
  /\ robots_cache = <<>>
  /\ result = <<>>
  /\ log = <<>>
  /\ served = {}
  /\ discovered = <<>>
  /\ checks = <<>>
  /\ failed = {}

Init ==
  /\ cfg \in FreeConfigs \cup ChainConfigs \cup SmallSiteConfigs
  /\ pc = "idle"
  /\ budget = IF cfg.respect_robots THEN MaxAnchors - 1 ELSE MaxAnchors
  /\ Quiet
  /\ NoFiles

\* ------------------------------------------------- find_pdfs_from_webpage
Top == stack[Len(stack)]

SetTop(f) == [stack EXCEPT ![Len(stack)] = f]

CaughtTimeoutOnly(e) == e = "Timeout"

\* the exceptions the handlers of find_pdfs_from_webpage catch
Caught(e) == e \in {"Timeout", "HTTPError"}

ClampMissing(depth) == depth

Clamp(depth) ==
  IF depth > MAX_RECURSION_DEPTH THEN MAX_RECURSION_DEPTH ELSE depth

\* The entry of a call that does not mark its URL visited.
EnterCallUnmarked(u, depth, vis, allowed, seen, hops) ==
  [frame |-> [url |-> u, depth |-> Clamp(depth), pdf_links |-> <<>>,
              other_links |-> <<>>, anchors |-> <<>>, i |-> 1,
              phase |-> "enter", hops |-> hops],
   visited |-> IF vis = NoUrls THEN {} ELSE vis,
   seen |-> IF cfg.deduplicate /\ seen = NoUrls THEN {} ELSE seen,
   allowed |-> IF allowed = NoDomains
                 THEN {SplitColonHead(LowerSeq(U[u].netloc))}
                 ELSE allowed]

\* The entry of a call (top-level or recursive): the depth is clamped, the
\* shared sets are created when the caller passed none, the URL is marked
\* visited and the call starts with an empty pdf_links.
EnterCall(u, depth, vis, allowed, seen, hops) ==
  [frame |-> [url |-> u, depth |-> Clamp(depth), pdf_links |-> <<>>,
              other_links |-> <<>>, anchors |-> <<>>, i |-> 1,
              phase |-> "enter", hops |-> hops],
   visited |-> (IF vis = NoUrls THEN {} ELSE vis) \cup {u},
   seen |-> IF cfg.deduplicate /\ seen = NoUrls THEN {} ELSE seen,
   allowed |-> IF allowed = NoDomains
                 THEN {SplitColonHead(LowerSeq(U[u].netloc))}
                 ELSE allowed]

\* what the GET of a page can do: raise, or return a page
Responses == {"Timeout", "HTTPError", "ok"}

\* The anchors page f.url may carry after those already read: any link while
\* the budget lasts on the free site, the next anchor of the page on a fixed
\* site.
NextLinks(f) ==
  IF cfg.site \in DOMAIN FixedSites
    THEN LET site == FixedSites[cfg.site]
         IN IF f.url \in DOMAIN site /\ Len(f.anchors) < Len(site[f.url])
              THEN {site[f.url][Len(f.anchors) + 1]}
              ELSE {}
    ELSE IF budget > 0 THEN Links ELSE {}

\* may the page end after the anchors already read?
MayEnd(f) == cfg.site \in DOMAIN FixedSites => NextLinks(f) = {}

\* the top-level call find_pdfs_from_webpage(url, recursion_depth, ...)
TopCall ==
  /\ pc = "idle"
  /\ LET e == EnterCall(cfg.url, cfg.recursion_depth, NoUrls,
                        cfg.allowed_domains, NoUrls, 0)
     IN /\ stack' = <<e.frame>>
        /\ visited' = e.visited
        /\ seen_pdfs' = e.seen
        /\ allowed_domains' = e.allowed
  /\ pc' = "running"
  /\ UNCHANGED <<cfg, robots_cache, result, log, served, discovered, checks,
                 failed, budget>>
  /\ UNCHANGED fileVars

PageAllowedAlways(u, allowed) == TRUE

\* `if not is_safe_domain(url, allowed_domains): return pdf_links`
PageAllowed(u, allowed) == is_safe_domain(u, allowed)

\* is_valid_url, is_safe_domain, requests.get and raise_for_status
VisitPage ==
  /\ pc = "running"
  /\ Top.phase = "enter"
  /\ IF ~is_valid_url(Top.url) \/ ~PageAllowed(Top.url, allowed_domains)
       THEN /\ stack' = SetTop([Top EXCEPT !.phase = "return"])
            /\ UNCHANGED <<pc, log, failed>>
       ELSE \E r \in Responses :
              /\ log' = Append(log, Event("get", Top.url, Top.hops))
              /\ failed' = IF r = "ok" THEN failed ELSE failed \cup {Top.url}
              /\ IF r = "ok"
                   THEN /\ stack' = SetTop([Top EXCEPT !.phase = "anchors"])
                        /\ pc' = pc
                   ELSE IF Caught(r)
                     THEN /\ stack' = SetTop([Top EXCEPT !.phase = "return"])
                          /\ pc' = pc
                     ELSE /\ stack' = <<>>
                          /\ pc' = "raised"
  /\ UNCHANGED <<cfg, visited, seen_pdfs, allowed_domains, robots_cache,
                 result, served, discovered, checks, budget>>
  /\ UNCHANGED fileVars

RobotsBlocksNever(respect, ret) == FALSE

\* `if respect_robots and not check_robots_txt(link, user_agent): continue`
RobotsBlocks(respect, ret) == respect /\ ~ret

IsDuplicateLocalOnly(link, pdf_links, seen) == link \in Range(pdf_links)

IsDuplicateOrForeign(link, pdf_links, seen) ==
  \/ link \in Range(pdf_links)
  \/ cfg.deduplicate /\ seen # NoUrls /\ link \in seen
  \/ ~is_safe_domain(link, allowed_domains)

IsDuplicateEverMet(link, pdf_links, seen) ==
  link \in Range(pdf_links) \/ link \in Range(discovered)

\* is_duplicate: in the page's own list, or (when deduplicating) seen before
IsDuplicate(link, pdf_links, seen) ==
  IF cfg.deduplicate /\ seen # NoUrls
    THEN link \in Range(pdf_links) \/ link \in seen
    ELSE link \in Range(pdf_links)

\* One iteration of `for anchor in anchors` on frame f with link `link`:
\* the frame, the seen set, the robots cache, the requests issued, the check
\* made and the PDF link met.  o is how the robots.txt request ends, when
\* one is issued.
AnchorStep(f, link, seen, cache, o) ==
  LET skip == [frame |-> f, seen |-> seen, cache |-> cache, events |-> <<>>,
               checks |-> <<>>, found |-> <<>>]
  IN IF ~is_valid_url(link) THEN skip
     ELSE IF IsPdfLink(link)
       THEN LET chk == IF cfg.respect_robots
                         THEN check_robots_txt(link, cfg.user_agent, cache, o)
                         ELSE [ret |-> TRUE, cache |-> cache, events |-> <<>>,
                               raised |-> FALSE]
                made == IF cfg.respect_robots
                          THEN <<[url |-> link, agent |-> cfg.user_agent,
                                  ret |-> chk.ret, kind |-> o.kind,
                                  raised |-> chk.raised]>>
                          ELSE <<>>
                checked == [skip EXCEPT !.cache = chk.cache,
                                        !.events = chk.events, !.checks = made]
            IN IF RobotsBlocks(cfg.respect_robots, chk.ret) THEN checked
               ELSE IF IsDuplicate(link, f.pdf_links, seen)
                 THEN [checked EXCEPT !.found = <<link>>]
                 ELSE [checked EXCEPT
                         !.frame = [f EXCEPT !.pdf_links = Append(@, link)],
                         !.seen = IF cfg.deduplicate /\ seen # NoUrls
                                    THEN seen \cup {link} ELSE seen,
                         !.found = <<link>>]
       ELSE IF f.depth > 0 /\ is_safe_domain(link, allowed_domains)
         THEN [skip EXCEPT !.frame = [f EXCEPT !.other_links = Append(@, link)]]
         ELSE skip

\* does this iteration call check_robots_txt?
ChecksRobots(link) ==
  is_valid_url(link) /\ IsPdfLink(link) /\ cfg.respect_robots

\* the body of the anchor loop, on the next anchor of the page
ProcessAnchor ==
  /\ pc = "running"
  /\ Top.phase = "anchors"
  /\ \E link \in NextLinks(Top) :
       \E o \in IF ChecksRobots(link) THEN OutcomesFor(link, robots_cache)
                ELSE {NoOutcome} :
          LET st == AnchorStep(Top, link, seen_pdfs, robots_cache, o)
          IN /\ stack' = SetTop([st.frame EXCEPT !.anchors = Append(@, link)])
             /\ seen_pdfs' = st.seen
             /\ robots_cache' = st.cache
             /\ log' = log \o st.events
             /\ checks' = checks \o st.checks
             /\ discovered' = discovered \o st.found
  /\ budget' = IF cfg.site \in DOMAIN FixedSites THEN budget ELSE budget - 1
  /\ UNCHANGED <<cfg, pc, visited, allowed_domains, result, served, failed>>
  /\ UNCHANGED fileVars

\* the page has no further anchor: the anchor loop is left
EndAnchors ==
  /\ pc = "running"
  /\ Top.phase = "anchors"
  /\ MayEnd(Top)
  /\ stack' = SetTop([Top EXCEPT !.phase = "recurse"])
  /\ served' = served \cup {<<Top.url, Top.anchors>>}
  /\ UNCHANGED <<cfg, pc, visited, seen_pdfs, allowed_domains, robots_cache,
                 result, log, discovered, checks, failed, budget>>
  /\ UNCHANGED fileVars

NextIndexStuck(i) == i

\* `for link in other_links` moves on to the next link
NextIndex(i) == i + 1

\* `for link in other_links` has a link left to look at
HasNext(f) == f.phase = "recurse" /\ f.depth > 0 /\ f.i <= Len(f.other_links)

SleepSkipped(link, request_delay) == <<>>

\* `time.sleep(request_delay)` before the recursive call for link
Sleep(link, request_delay) == <<Event("sleep", link, request_delay)>>

\* `if link not in visited`: sleep, then the recursive call
Descend ==
  /\ pc = "running"
  /\ HasNext(Top)
  /\ Top.other_links[Top.i] \notin visited
  /\ LET e == EnterCall(Top.other_links[Top.i], Top.depth - 1, visited,
                        allowed_domains, seen_pdfs, Top.hops + 1)
     IN /\ stack' = Append(stack, e.frame)
        /\ visited' = e.visited
        /\ seen_pdfs' = e.seen
        /\ allowed_domains' = e.allowed
  /\ log' = log \o Sleep(Top.other_links[Top.i], cfg.request_delay)
  /\ UNCHANGED <<cfg, pc, robots_cache, result, served, discovered, checks,
                 failed, budget>>
  /\ UNCHANGED fileVars

\* a link already in visited is passed over
SkipVisited ==
  /\ pc = "running"
  /\ HasNext(Top)
  /\ Top.other_links[Top.i] \in visited
  /\ stack' = SetTop([Top EXCEPT !.i = NextIndex(@)])
  /\ UNCHANGED <<cfg, pc, visited, seen_pdfs, allowed_domains, robots_cache,
                 result, log, served, discovered, checks, failed, budget>>
  /\ UNCHANGED fileVars

ExtendFront(pdf_links, returned) == returned \o pdf_links

\* pdf_links.extend(<what the recursive call returned>)
Extend(pdf_links, returned) == pdf_links \o returned

\* `return pdf_links`: to the caller's extend, or out of the top-level call
Return ==
  /\ pc = "running"
  /\ Top.phase \in {"return", "recurse"}
  /\ ~HasNext(Top)
  /\ IF Len(stack) = 1
       THEN /\ result' = Top.pdf_links
            /\ stack' = <<>>
            /\ pc' = "done"
       ELSE LET caller == stack[Len(stack) - 1]
            IN /\ stack' = [SubSeq(stack, 1, Len(stack) - 1) EXCEPT
                              ![Len(stack) - 1] =
                                [caller EXCEPT
                                   !.pdf_links = Extend(@, Top.pdf_links),
                                   !.i = NextIndex(@)]]
               /\ UNCHANGED <<result, pc>>
  /\ UNCHANGED <<cfg, visited, seen_pdfs, allowed_domains, robots_cache, log,
                 served, discovered, checks, failed, budget>>
  /\ UNCHANGED fileVars

Next ==
  \/ TopCall \/ VisitPage \/ ProcessAnchor \/ EndAnchors
  \/ Descend \/ SkipVisited \/ Return

Spec == Init /\ [][Next]_vars

\* The sequential program takes its next step whenever it has one (every
\* request returns or fails).
SpecLive == Init /\ [][Next]_vars /\ WF_vars(Next)

\* ------------------------------------------ check_robots_txt called directly
\* URLs the callers ask about: two of domain http://a.b, one of https://c.d
AskedUrls == {"D1", "P1", "DX"}

\* the arguments of the direct calls: every asked URL with every user agent
\* string, one of them without a user agent
RobotsCallArgs == (AskedUrls \X Agents) \cup {<<"D1", NoAgent>>}

InitRobots ==
  /\ cfg \in {c \in FreeConfigs :
                /\ c.url = "R" /\ c.recursion_depth = 0
                /\ c.allowed_domains = NoDomains
                /\ ~c.respect_robots /\ c.deduplicate}
  /\ pc = "api"
  /\ budget = 0
  /\ Quiet
  /\ NoFiles

\* one call check_robots_txt(u, agent) from outside the crawl
CheckRobotsCall ==
  /\ pc = "api"
  /\ Len(checks) < MaxCalls
  /\ \E <<u, agent>> \in RobotsCallArgs :
       \E o \in OutcomesFor(u, robots_cache) :
         LET r == check_robots_txt(u, agent, robots_cache, o)
         IN /\ robots_cache' = r.cache
            /\ log' = log \o r.events
            /\ checks' = Append(checks, [url |-> u, agent |-> agent,
                                         ret |-> r.ret, kind |-> o.kind,
                                         raised |-> r.raised])
  /\ UNCHANGED <<cfg, pc, stack, visited, seen_pdfs, allowed_domains, result,
                 served, discovered, failed, budget>>
  /\ UNCHANGED fileVars

NextRobots == CheckRobotsCall

SpecRobots == InitRobots /\ [][NextRobots]_vars

\* ------------------------------------------------------------ download_pdf
\* the ceiling of one backoff sleep, in seconds
MAX_BACKOFF == 10

\* how a GET of a PDF URL can fail: timeout, connection error, non-2xx status
DownloadFailures == {"Timeout", "ConnectionError", "HTTPError"}

\* what a GET that succeeds can bring: a PDF content type, another content
\* type with a body starting with %PDF, or neither
DownloadBodies == {"typed", "magic", "neither"}

\* the content is accepted if the Content-Type says PDF or the body starts
\* with the PDF magic marker
Accepted(body) == body \in {"typed", "magic"}

BackoffUncapped(k) == 2 ^ (k - 1)

\* the sleep after failed attempt number k: 2^(k-1) seconds, at most 10
Backoff(k) == IF 2 ^ (k - 1) > MAX_BACKOFF THEN MAX_BACKOFF ELSE 2 ^ (k - 1)

ExhaustedLate(k, max_retries) == k > max_retries

\* were all the attempts made once attempt number k has failed?
Exhausted(k, max_retries) == k >= max_retries

\* a call download_pdf(url, timeout, max_retries, user_agent)
DownloadCalls ==
  [pc : {"call"}, url : {"D1"}, max_retries : 0..MaxRetries,
   attempt : {0}, outcomes : {<<>>}, ret : {"unset"}]

InitDownload ==
  /\ cfg \in {c \in FreeConfigs :
                /\ c.url = "R" /\ c.recursion_depth = 0
                /\ c.allowed_domains = NoDomains
                /\ ~c.respect_robots /\ c.deduplicate}
  /\ pc = "api"
  /\ budget = 0
  /\ Quiet
  /\ dl \in DownloadCalls
  /\ pp = [pc |-> "none"]
  /\ disk = <<>>
  /\ web = [pc |-> "none"]
  /\ call = [pc |-> "none"]
  /\ SCHEMAS = <<>>

\* entry: with no attempt allowed the call returns None at once
DownloadEnter ==
  /\ dl.pc = "call"
  /\ dl' = IF Exhausted(0, dl.max_retries)
             THEN [dl EXCEPT !.pc = "done", !.ret = "None"]
             ELSE [dl EXCEPT !.pc = "attempt"]
  /\ UNCHANGED <<pc, log, pp, disk>>
  /\ UNCHANGED <<crawlVars, web, call, SCHEMAS>>

\* one GET: it fails (and the call backs off, or gives up after the last
\* attempt and returns None) or it succeeds (and the call returns the content
\* when it is accepted as a PDF, None when it is not)
DownloadAttempt ==
  /\ dl.pc = "attempt"
  /\ LET k == dl.attempt + 1
     IN /\ log' = Append(log, Event("pdfget", dl.url, k))
        /\ \E o \in DownloadFailures \cup DownloadBodies :
             dl' = IF o \in DownloadFailures
                     THEN IF Exhausted(k, dl.max_retries)
                            THEN [dl EXCEPT !.attempt = k, !.pc = "done",
                                            !.ret = "None",
                                            !.outcomes = Append(@, o)]
                            ELSE [dl EXCEPT !.attempt = k, !.pc = "backoff",
                                            !.outcomes = Append(@, o)]
                     ELSE [dl EXCEPT !.attempt = k, !.pc = "done",
                                     !.ret = IF Accepted(o) THEN "content"
                                                            ELSE "None",
                                     !.outcomes = Append(@, o)]
  /\ UNCHANGED <<pc, pp, disk>>
  /\ UNCHANGED <<crawlVars, web, call, SCHEMAS>>

\* the sleep between a failed attempt and the next one
DownloadBackoff ==
  /\ dl.pc = "backoff"
  /\ log' = Append(log, Event("backoff", dl.url, Backoff(dl.attempt)))
  /\ dl' = [dl EXCEPT !.pc = "attempt"]
  /\ UNCHANGED <<pc, pp, disk>>
  /\ UNCHANGED <<crawlVars, web, call, SCHEMAS>>

NextDownload == DownloadEnter \/ DownloadAttempt \/ DownloadBackoff

SpecDownload == InitDownload /\ [][NextDownload]_vars

\* ------------------------------------------------------------ process_pdfs
\* The PDF URLs given to process_pdfs: the directory and the basename of the
\* path, the basename as characters followed by its extension.  A2 and B2
\* share a basename.
Docs ==
  [ A2  |-> [dir |-> "x", file |-> <<"c", "2", ".pdf">>],
    B2  |-> [dir |-> "y", file |-> <<"c", "2", ".pdf">>],
    A10 |-> [dir |-> "x", file |-> <<"c", "1", "0", ".pdf">>],
    AD  |-> [dir |-> "x", file |-> <<"D", ".PDF">>],
    A21 |-> [dir |-> "x", file |-> <<"c", "2", "_", "1", ".pdf">>] ]

DocUrls == DOMAIN Docs

\* what follows the last '/' of a path
PathBasename(path) ==
  LET cut == {i \in DOMAIN path : path[i] = "/"}
  IN IF cut = {} THEN path
     ELSE SubSeq(path, (CHOOSE i \in cut : \A j \in cut : j <= i) + 1, Len(path))

\* os.path.basename(urlparse(url).path)
Basename(u) ==
  IF u \in DOMAIN Docs THEN Docs[u].file ELSE PathBasename(U[u].path)

\* the pages of the document served at each URL
PageCount ==
  [A2 |-> 1, B2 |-> 2, A10 |-> 3, AD |-> 1, A21 |-> 1, D1 |-> 1, DX |-> 2]

Pages(u) == [n \in 1..PageCount[u] |-> <<u, n>>]

\* the code point of a character; of the first character of a token that
\* stands for several ("d1", ".pdf")
Code(t) ==
  CASE t \in {".pdf", ".PDF"} -> 46
    [] t = "0" -> 48
    [] t = "1" -> 49
    [] t = "2" -> 50
    [] t = "D" -> 68
    [] t = "_" -> 95
    [] t = "c" -> 99
    [] t \in {"d", "d1"} -> 100
    [] OTHER -> 120

Digits == {"0", "1", "2"}

\* int() of a run of digits
RECURSIVE IntOf(_)
IntOf(run) ==
  IF run = <<>> THEN 0
  ELSE 10 * IntOf(SubSeq(run, 1, Len(run) - 1)) + (Code(run[Len(run)]) - 48)

\* re.findall(r'\d+', filename): the maximal runs of digits, in order
RECURSIVE DigitRuns(_, _)
DigitRuns(name, run) ==
  IF name = <<>>
    THEN IF run = <<>> THEN <<>> ELSE <<run>>
    ELSE IF Head(name) \in Digits
           THEN DigitRuns(Tail(name), Append(run, Head(name)))
           ELSE (IF run = <<>> THEN <<>> ELSE <<run>>) \o DigitRuns(Tail(name), <<>>)

\* _extract_numeric_key: the tuple of the integers, (inf,) without digits
extract_numeric_key(u) ==
  LET numbers == DigitRuns(Basename(u), <<>>)
  IN IF numbers = <<>>
       THEN <<[inf |-> TRUE, n |-> 0]>>
       ELSE [i \in DOMAIN numbers |-> [inf |-> FALSE, n |-> IntOf(numbers[i])]]

\* < on int and float('inf')
NumLess(a, b) == ~a.inf /\ (b.inf \/ a.n < b.n)

\* < on tuples of numbers
RECURSIVE TupleLess(_, _)
TupleLess(a, b) ==
  IF b = <<>> THEN FALSE
  ELSE IF a = <<>> THEN TRUE
  ELSE IF NumLess(Head(a), Head(b)) THEN TRUE
  ELSE IF NumLess(Head(b), Head(a)) THEN FALSE
  ELSE TupleLess(Tail(a), Tail(b))

\* < on strings
RECURSIVE StrLess(_, _)
StrLess(a, b) ==
  IF b = <<>> THEN FALSE
  ELSE IF a = <<>> THEN TRUE
  ELSE IF Code(Head(a)) < Code(Head(b)) THEN TRUE
  ELSE IF Code(Head(b)) < Code(Head(a)) THEN FALSE
  ELSE StrLess(Tail(a), Tail(b))

\* lambda url: os.path.basename(urlparse(url).path).lower()
AlphaKey(u) == LowerSeq(Basename(u))

\* a custom sort_key a caller may pass: a number for each URL
CustomRank == [A2 |-> 3, B2 |-> 1, A10 |-> 2, AD |-> 2, A21 |-> 0]

NoKey == "None"

\* the values of sort_by: absent, the four options, an unknown one
SortBys == {"None", "none", "numeric", "alpha", "alpha_desc", "bogus"}

\* _get_sort_key: which key function sorts, "none" when nothing does
get_sort_key(sort_by, sort_key) ==
  IF sort_key # NoKey THEN "custom"
  ELSE IF sort_by \in {"None", "none"} THEN "none"
  ELSE IF sort_by = "numeric" THEN "numeric"
  ELSE IF sort_by \in {"alpha", "alpha_desc"} THEN "alpha"
  ELSE "none"

\* key(a) < key(b) for the resolved key
KeyLess(key, a, b) ==
  CASE key = "custom" -> CustomRank[a] < CustomRank[b]
    [] key = "numeric" -> TupleLess(extract_numeric_key(a), extract_numeric_key(b))
    [] key = "alpha" -> StrLess(AlphaKey(a), AlphaKey(b))
    [] OTHER -> FALSE

\* `reverse = (sort_by == 'alpha_desc')`
Reverse(sort_by, sort_key) == sort_by = "alpha_desc"

\* sorted(): x goes before the first element that must follow it, so equal
\* keys keep their order
RECURSIVE InsertSorted(_, _, _, _)
InsertSorted(x, sorted, key, reverse) ==
  IF sorted = <<>> THEN <<x>>
  ELSE LET y == sorted[Len(sorted)]
           xFirst == IF reverse THEN KeyLess(key, y, x) ELSE KeyLess(key, x, y)
       IN IF xFirst
            THEN Append(InsertSorted(x, SubSeq(sorted, 1, Len(sorted) - 1),
                                     key, reverse), y)
            ELSE Append(sorted, x)

RECURSIVE Sorted(_, _, _)
Sorted(list, key, reverse) ==
  IF list = <<>> THEN <<>>
  ELSE InsertSorted(list[Len(list)],
                    Sorted(SubSeq(list, 1, Len(list) - 1), key, reverse),
                    key, reverse)

SortSkipped(links, sort_by, sort_key) == links

\* lines 453-456: the list as downloaded
SortLinks(links, sort_by, sort_key) ==
  LET key == get_sort_key(sort_by, sort_key)
  IN IF key = "none" THEN links
     ELSE Sorted(links, key, Reverse(sort_by, sort_key))

\* --- file names
\* characters sanitize_filename replaces by '_'
DangerousChars == {"<", ">", ":", "\"", "|", "?", "*"}

\* line 184: max_length
max_length == 200

\* the longest run of one letter a modelled name holds
MaxRun == 250

\* 'x' * n, a run of n letters, as one token
Run(n) == "x^" \o ToString(n)

\* the runs and their lengths
RunLenOf ==
  [t \in {Run(n) : n \in 1..MaxRun} |-> CHOOSE n \in 1..MaxRun : Run(n) = t]

\* the tokens that stand for more than one character
WordLen ==
  (".pdf" :> 4) @@ (".PDF" :> 4) @@ ("pdf" :> 3) @@ ("PDF" :> 3)
  @@ ("downloaded" :> 10) @@ ("merged" :> 6) @@ ("passwd" :> 6)
  @@ ("etc" :> 3) @@ ("2e" :> 2) @@ ("2f" :> 2) @@ ("5c" :> 2)
  @@ ("25" :> 2) @@ ("00" :> 2) @@ ("d1" :> 2)

\* len() of one token
CharLen(t) ==
  IF t \in DOMAIN RunLenOf THEN RunLenOf[t]
  ELSE IF t \in DOMAIN WordLen THEN WordLen[t]
  ELSE 1

\* len(filename)
RECURSIVE StrLen(_)
StrLen(name) ==
  IF name = <<>> THEN 0 ELSE CharLen(Head(name)) + StrLen(Tail(name))

\* name[:k]; a run is cut to a shorter run, '.pdf' to its dot (the modelled
\* long names hold no other word where the cut falls)
RECURSIVE Take(_, _)
Take(name, k) ==
  IF name = <<>> \/ k <= 0 THEN <<>>
  ELSE IF CharLen(Head(name)) <= k
    THEN <<Head(name)>> \o Take(Tail(name), k - CharLen(Head(name)))
  ELSE IF Head(name) \in DOMAIN RunLenOf THEN <<Run(k)>>
  ELSE IF Head(name) \in {".pdf", ".PDF"} /\ k = 1 THEN <<".">>
  ELSE <<>>

\* the two hexadecimal digits of a percent escape and what they decode to
HexPairs ==
  ("2e" :> ".") @@ ("2f" :> "/") @@ ("5c" :> "\\") @@ ("00" :> "NUL")
  @@ ("25" :> "%")

\* urllib.parse.unquote: one pass from the left, '%' and two hexadecimal
\* digits become the character, what the decoding yields is not decoded again
RECURSIVE unquote(_)
unquote(s) ==
  IF s = <<>> THEN <<>>
  ELSE IF Head(s) = "%" /\ Len(s) >= 2 /\ s[2] \in DOMAIN HexPairs
    THEN <<HexPairs[s[2]]>> \o unquote(SubSeq(s, 3, Len(s)))
  ELSE <<Head(s)>> \o unquote(Tail(s))

\* filename.lstrip('.') stripping one dot only
LStripOneDot(name) ==
  IF name = <<>> THEN <<>>
  ELSE IF Head(name) = "." THEN Tail(name)
  ELSE IF Head(name) = ".pdf" THEN <<"pdf">> \o Tail(name)
  ELSE IF Head(name) = ".PDF" THEN <<"PDF">> \o Tail(name)
  ELSE name

\* filename.lstrip('.'); the dot of a leading extension goes too
RECURSIVE LStripDots(_)
LStripDots(name) ==
  IF name = <<>> THEN <<>>
  ELSE IF Head(name) = "." THEN LStripDots(Tail(name))
  ELSE IF Head(name) = ".pdf" THEN <<"pdf">> \o Tail(name)
  ELSE IF Head(name) = ".PDF" THEN <<"PDF">> \o Tail(name)
  ELSE name

\* os.path.splitext(file_name)[0]
SplitextRoot(name) ==
  IF name # <<>> /\ name[Len(name)] \in {".pdf", ".PDF"}
    THEN SubSeq(name, 1, Len(name) - 1)
    ELSE name

\* os.path.splitext(file_name)[1]
SplitextExt(name) ==
  IF name # <<>> /\ name[Len(name)] \in {".pdf", ".PDF"}
    THEN <<name[Len(name)]>>
    ELSE <<>>

\* lines 185-187 keeping max_length characters of the name and the extension
TruncateName(filename) ==
  IF StrLen(filename) > max_length
    THEN Take(SplitextRoot(filename), max_length) \o SplitextExt(filename)
    ELSE filename

\* lines 183-187: the name is cut so that name and extension keep max_length
Truncate(filename) ==
  IF StrLen(filename) > max_length
    THEN LET ext == SplitextExt(filename)
         IN Take(SplitextRoot(filename), max_length - StrLen(ext)) \o ext
    ELSE filename

\* sanitize_filename, lines 157-189: percent escapes decoded once, the
\* directories dropped, separators and NUL removed, leading dots stripped,
\* dangerous characters replaced, an empty name replaced, '.pdf' appended
\* when missing, the result cut to max_length
sanitize_filename(name) ==
  LET decoded == unquote(name)
      base == PathBasename(decoded)
      kept == SelectSeq(base, LAMBDA t : t \notin {"/", "\\", "NUL"})
      stripped == LStripDots(kept)
      replaced == [i \in DOMAIN stripped |->
                     IF stripped[i] \in DangerousChars THEN "_" ELSE stripped[i]]
      named == IF replaced = <<>> \/ replaced = <<".pdf">>
                 THEN <<"downloaded", ".pdf">> ELSE replaced
      suffixed == IF Lower(named[Len(named)]) = ".pdf"
                    THEN named ELSE Append(named, ".pdf")
  IN Truncate(suffixed)

\* str(counter), for counters below ten
Decimal(k) == <<"0", "1", "2", "3", "4", "5", "6", "7", "8", "9">>[k + 1]

FirstNameTaken(file_name, base_name, counter, files) == file_name

\* lines 526-531: the first of file_name, base_1.pdf, base_2.pdf, ... that
\* does not exist
RECURSIVE FreeName(_, _, _, _)
FreeName(file_name, base_name, counter, files) ==
  IF file_name \in files
    THEN FreeName(base_name \o <<"_", Decimal(counter), ".pdf">>, base_name,
                  counter + 1, files)
    ELSE file_name

MergedName == <<"merged", ".pdf">>

\* --- documents
\* what download_pdf can return for a URL: None, bytes that do not start
\* with %PDF, bytes that start with %PDF and cannot be opened, the document
DownloadResults == {"None", "html", "corrupt", "pdf"}

\* `content is not None and content.startswith(b'%PDF')`
IsValidContentAny(c) == c.kind # "None"

IsValidContent(c) == c.kind \notin {"None", "html"}

\* len(content)
SizeOf(c) == IF c.kind = "pdf" THEN 4 + PageCount[c.url] ELSE 4

\* merge_pdfs: the pages of the contents that open, in list order
RECURSIVE merge_pdfs(_)
merge_pdfs(contents) ==
  IF contents = <<>> THEN <<>>
  ELSE LET c == Head(contents)
       IN (IF c.kind = "pdf" THEN Pages(c.url) ELSE <<>>) \o merge_pdfs(Tail(contents))

\* save_pdf_to_file(document, path, mode): a document without pages is not
\* written, an IOError is caught inside, 'append' adds the pages to an
\* existing file, otherwise the file is created or replaced
save_pdf_to_file(pages, path, mode, outcome, files) ==
  IF pages = <<>> \/ outcome = "ioerror" THEN files
  ELSE IF mode = "append" /\ path \in DOMAIN files
         THEN (path :> (files[path] \o pages)) @@ files
         ELSE (path :> pages) @@ files

\* did save_pdf_to_file write?
Wrote(pages, outcome) == pages # <<>> /\ outcome # "ioerror"

\* --- the call
\* no size known or no bound set
NoSize == -1

\* filter_config=None
NoFilter ==
  [on |-> FALSE, filename_include |-> {}, filename_exclude |-> {},
   url_include |-> {}, url_exclude |-> {},
   min_size |-> NoSize, max_size |-> NoSize]

\* FilterConfig(...): the fields not given keep their defaults
FilterConfig(fields) == fields @@ [NoFilter EXCEPT !.on = TRUE]

\* excludes d* by filename (D.PDF, case-insensitively), at most 5 bytes
ShortNoD ==
  FilterConfig([filename_exclude |-> {<<"d", "*">>}, max_size |-> 5])

\* the filter configurations of the calls that sort
SortFilters == {NoFilter, ShortNoD}

\* filter configurations: none; a filename exclude with an upper size bound;
\* filename include and exclude that overlap on c2_1.pdf; URL include and
\* exclude that overlap on /x/c10.pdf; both size bounds
Filters ==
  SortFilters \cup
  {FilterConfig([filename_include |-> {<<"c", "2", "*">>},
                 filename_exclude |-> {<<"*", "_", "*">>}]),
   FilterConfig([url_include |-> {<<"*", "/", "x", "/", "*">>},
                 url_exclude |-> {<<"*", "1", "0", "*">>}]),
   FilterConfig([min_size |-> 6, max_size |-> 7])}

\* the URL as text
UrlText(u) ==
  IF u \in DOMAIN Docs
    THEN <<"http", "://", "a.b", "/", Docs[u].dir, "/">> \o Docs[u].file
    ELSE FullString(u)

\* shell-style match of a whole name against a pattern; * is any run of
\* characters
RECURSIVE fnmatch(_, _)
fnmatch(name, pat) ==
  IF pat = <<>> THEN name = <<>>
  ELSE IF Head(pat) = "*"
    THEN fnmatch(name, Tail(pat)) \/ (name # <<>> /\ fnmatch(Tail(name), pat))
  ELSE name # <<>> /\ Head(name) = Head(pat) /\ fnmatch(Tail(name), Tail(pat))

\* case-insensitive match against one of the patterns
MatchesAny(text, patterns) ==
  \E pat \in patterns : fnmatch(LowerSeq(text), LowerSeq(pat))

\* an include match (or no include pattern) and no exclude match
matches_filename_pattern(filename, include, exclude) ==
  /\ include = {} \/ MatchesAny(filename, include)
  /\ ~MatchesAny(filename, exclude)

matches_url_pattern(url, include, exclude) ==
  /\ include = {} \/ MatchesAny(url, include)
  /\ ~MatchesAny(url, exclude)

\* both bounds inclusive, a bound that is not set does not bind
matches_size_limits(size, min_size, max_size) ==
  /\ min_size # NoSize => size >= min_size
  /\ max_size # NoSize => size <= max_size

\* should_download_pdf(link, size_bytes, filter_config): the size is looked
\* at only when it is known
should_download_pdf(link, size, f) ==
  /\ matches_filename_pattern(Basename(link), f.filename_include, f.filename_exclude)
  /\ matches_url_pattern(UrlText(link), f.url_include, f.url_exclude)
  /\ size # NoSize => matches_size_limits(size, f.min_size, f.max_size)

FilterSkipped(links, f) == links

\* lines 437-446: the links should_download_pdf accepts without a size
FilterLinks(links, f) ==
  IF f.on
    THEN SelectSeq(links, LAMBDA l : should_download_pdf(l, NoSize, f))
    ELSE links

SizeFilterSkipped(valid, f) == valid

\* lines 488-496: with a size bound set, the contents should_download_pdf
\* accepts with their length
SizeFilter(valid, f) ==
  IF f.on /\ (f.min_size # NoSize \/ f.max_size # NoSize)
    THEN SelectSeq(valid, LAMBDA c : should_download_pdf(c.url, SizeOf(c), f))
    ELSE valid

Modes == {"separate", "merge", "bogus"}

ValidModeAny(mode) == TRUE

\* `mode not in ('separate', 'merge')`, negated
ValidMode(mode) == mode \in {"separate", "merge"}

\* the URL lists: up to MaxLinks different URLs in any order
LinkLists ==
  {l \in SeqsUpTo(DocUrls, MaxLinks) :
     \A i, j \in DOMAIN l : l[i] = l[j] => i = j}

\* a page of a file that was in the write directory before the call
OldPages == <<<<"old", 1>>>>

\* what the write directory may hold before the call
InitialDisks(mode) ==
  CASE mode = "merge" -> {<<>>, MergedName :> OldPages}
    [] mode = "separate" ->
         {<<>>, <<"c", "2", ".pdf">> :> OldPages,
          (<<"c", "2", ".pdf">> :> OldPages)
            @@ (<<"c", "2", "_", "1", ".pdf">> :> OldPages)}
    [] OTHER -> {<<>>}

\* the locals of a process_pdfs call at its entry
Locals ==
  [order |-> <<>>, contents |-> <<>>, valid |-> <<>>, i |-> 1,
   success |-> FALSE, ret |-> "unset", made_dir |-> FALSE,
   fetched |-> <<>>, writes |-> <<>>, unsaved |-> {}, before |-> <<>>]

\* calls that sort: every strategy and key, every download and save succeeds
SortCalls ==
  {[pc |-> "call", links |-> l, mode |-> m, filter |-> f,
    sort_by |-> sb, sort_key |-> sk, faults |-> 0] @@ Locals :
     l \in LinkLists, m \in {"separate", "merge"}, f \in SortFilters,
     sb \in SortBys, sk \in {NoKey, "rank"}}

\* calls in input order: every mode and filter, downloads and saves may fail
FileCalls ==
  {[pc |-> "call", links |-> l, mode |-> m, filter |-> f,
    sort_by |-> "None", sort_key |-> NoKey, faults |-> MaxFaults] @@ Locals :
     l \in LinkLists, m \in Modes, f \in Filters}

InitProcess ==
  /\ cfg \in {c \in FreeConfigs :
                /\ c.url = "R" /\ c.recursion_depth = 0
                /\ c.allowed_domains = NoDomains
                /\ ~c.respect_robots /\ c.deduplicate}
  /\ pc = "api"
  /\ budget = 0
  /\ Quiet
  /\ web = [pc |-> "none"]
  /\ call = [pc |-> "none"]
  /\ SCHEMAS = <<>>
  /\ dl = [pc |-> "none"]
  /\ \/ pp \in SortCalls /\ disk = <<>>
     \/ \E c \in FileCalls :
          \E d \in InitialDisks(c.mode) :
            pp = [c EXCEPT !.before = d] /\ disk = d

BoolStr(b) == IF b THEN "True" ELSE "False"

\* `return False`
Fail(p) == [p EXCEPT !.pc = "done", !.ret = "False"]

\* lines 433-472: empty input, name and URL filters, sort, mode check,
\* os.makedirs
ProcessEnter ==
  /\ pp.pc = "call"
  /\ LET filtered == FilterLinks(pp.links, pp.filter)
         sorted == SortLinks(filtered, pp.sort_by, pp.sort_key)
     IN pp' = IF pp.links = <<>> THEN Fail(pp)
              ELSE IF filtered = <<>> THEN Fail(pp)
              ELSE IF ~ValidMode(pp.mode) THEN Fail(pp)
              ELSE [pp EXCEPT !.pc = "download", !.order = sorted,
                              !.made_dir = TRUE]
  /\ UNCHANGED <<pc, log, dl, disk>>
  /\ UNCHANGED <<crawlVars, web, call, SCHEMAS>>

\* lines 476-478: one download_pdf call of the list comprehension
ProcessDownload ==
  /\ pp.pc = "download"
  /\ Len(pp.contents) < Len(pp.order)
  /\ LET u == pp.order[Len(pp.contents) + 1]
     IN \E kind \in DownloadResults :
          /\ kind # "pdf" => pp.faults > 0
          /\ pp' = [pp EXCEPT !.contents = Append(@, [kind |-> kind, url |-> u]),
                              !.fetched = Append(@, u),
                              !.faults = IF kind # "pdf" THEN @ - 1 ELSE @]
  /\ UNCHANGED <<pc, log, dl, disk>>
  /\ UNCHANGED <<crawlVars, web, call, SCHEMAS>>

\* lines 480-500: contents that are not None and start with %PDF, then the
\* size filter
ProcessSelect ==
  /\ pp.pc = "download"
  /\ Len(pp.contents) = Len(pp.order)
  /\ LET valid == SelectSeq(pp.contents, IsValidContent)
         sized == SizeFilter(valid, pp.filter)
     IN pp' = IF valid = <<>> THEN Fail(pp)
              ELSE IF sized = <<>> THEN Fail(pp)
              ELSE [pp EXCEPT !.pc = "save", !.valid = sized]
  /\ UNCHANGED <<pc, log, dl, disk>>
  /\ UNCHANGED <<crawlVars, web, call, SCHEMAS>>

\* lines 504-516: merge mode
ProcessMerge ==
  /\ pp.pc = "save"
  /\ pp.mode = "merge"
  /\ LET path == MergedName
         merged == merge_pdfs(pp.valid)
     IN \E outcome \in {"ok", "ioerror"} :
          /\ outcome = "ioerror" => pp.faults > 0
          /\ disk' = save_pdf_to_file(merged, path, "append", outcome, disk)
          /\ pp' = [pp EXCEPT
                      !.pc = "done", !.success = TRUE, !.ret = "True",
                      !.faults = IF outcome = "ioerror" THEN @ - 1 ELSE @,
                      !.unsaved = IF outcome = "ioerror" THEN @ \cup {"merged"} ELSE @,
                      !.writes = IF Wrote(merged, outcome)
                                   THEN Append(@, [path |-> path, url |-> "merged",
                                                   existed |-> path \in DOMAIN disk])
                                   ELSE @]
  /\ UNCHANGED <<pc, log, dl>>
  /\ UNCHANGED <<crawlVars, web, call, SCHEMAS>>

\* lines 520-539: one iteration of the separate loop; an exception leaves
\* the loop through the handler of line 538
ProcessSaveOne ==
  /\ pp.pc = "save"
  /\ pp.mode = "separate"
  /\ pp.i <= Len(pp.valid)
  /\ LET c == pp.valid[pp.i]
         file_name == sanitize_filename(Basename(c.url))
         path == FreeName(file_name, SplitextRoot(file_name), 1, DOMAIN disk)
         last == pp.i = Len(pp.valid)
     IN IF c.kind = "corrupt"
          THEN /\ pp' = [pp EXCEPT !.pc = "done", !.ret = BoolStr(pp.success)]
               /\ disk' = disk
          ELSE \E outcome \in {"ok", "ioerror"} :
                 /\ outcome = "ioerror" => pp.faults > 0
                 /\ disk' = save_pdf_to_file(Pages(c.url), path, "overwrite",
                                             outcome, disk)
                 /\ pp' = [pp EXCEPT
                             !.success = TRUE, !.i = @ + 1,
                             !.pc = IF last THEN "done" ELSE @,
                             !.ret = IF last THEN "True" ELSE @,
                             !.faults = IF outcome = "ioerror" THEN @ - 1 ELSE @,
                             !.unsaved = IF outcome = "ioerror" THEN @ \cup {c.url} ELSE @,
                             !.writes = IF Wrote(Pages(c.url), outcome)
                                          THEN Append(@, [path |-> path, url |-> c.url,
                                                          existed |-> path \in DOMAIN disk])
                                          ELSE @]
  /\ UNCHANGED <<pc, log, dl>>
  /\ UNCHANGED <<crawlVars, web, call, SCHEMAS>>

NextProcess ==
  ProcessEnter \/ ProcessDownload \/ ProcessSelect \/ ProcessMerge \/ ProcessSaveOne

SpecProcess == InitProcess /\ [][NextProcess]_vars

\* ----------------------------------------------- download_pdfs_from_webpage
\* the crawls of download_pdfs_from_webpage calls: the free site from its
\* root, every depth, the root's own domain, every discovered PDF once
WebConfigs ==
  {c \in FreeConfigs :
     /\ c.url = "R" /\ c.allowed_domains = NoDomains
     /\ ~c.respect_robots /\ c.deduplicate}

\* filter configurations of the calls: none; a filename exclude that drops
\* x.PDF, with size bounds that drop the 5 bytes of d1.pdf
WebFilters ==
  {NoFilter,
   FilterConfig([filename_exclude |-> {<<"x", "*">>},
                 min_size |-> 6, max_size |-> 7])}

\* the arguments of a download_pdfs_from_webpage call
WebCalls ==
  [pc : {"crawl"}, dry_run : BOOLEAN, mode : Modes, filter : WebFilters,
   sort_by : {"None", "alpha"}, sort_key : {NoKey}, ret : {"unset"}]

\* the call's crawl is served one anchor fewer than a crawl by itself
InitWebpage ==
  /\ cfg \in WebConfigs
  /\ pc = "idle"
  /\ budget = MaxAnchors - 1
  /\ Quiet
  /\ dl = [pc |-> "none"]
  /\ pp = [pc |-> "none"]
  /\ disk = <<>>
  /\ web \in WebCalls
  /\ call = [pc |-> "none"]
  /\ SCHEMAS = <<>>

IsDryRunNever(w) == FALSE

\* `if dry_run:`
IsDryRun(w) == w.dry_run

DryRunSorted(links, w) ==
  SortLinks(FilterLinks(links, w.filter), w.sort_by, w.sort_key)

\* lines 604-612: the list a dry run reports, filtered by filename and URL
DryRunUrls(links, w) == FilterLinks(links, w.filter)

\* lines 603-619: the dry run returns the URLs with their number
WebDryRun ==
  /\ pc = "done"
  /\ web.pc = "crawl"
  /\ IsDryRun(web)
  /\ LET pdf_links == DryRunUrls(result, web)
     IN web' = [web EXCEPT !.pc = "done",
                           !.ret = [urls |-> pdf_links, count |-> Len(pdf_links)]]
  /\ UNCHANGED <<pc, log, dl, pp, disk>>
  /\ UNCHANGED <<crawlVars, call, SCHEMAS>>

\* lines 621-633: the call of process_pdfs on the links found
WebProcess ==
  /\ pc = "done"
  /\ web.pc = "crawl"
  /\ ~IsDryRun(web)
  /\ pp' = [pc |-> "call", links |-> result, mode |-> web.mode,
            filter |-> web.filter, sort_by |-> web.sort_by,
            sort_key |-> web.sort_key, faults |-> 0] @@ Locals
  /\ web' = [web EXCEPT !.pc = "process"]
  /\ UNCHANGED <<pc, log, dl, disk>>
  /\ UNCHANGED <<crawlVars, call, SCHEMAS>>

\* line 622: `return process_pdfs(...)`
WebReturn ==
  /\ web.pc = "process"
  /\ pp.pc = "done"
  /\ web' = [web EXCEPT !.pc = "done", !.ret = pp.ret]
  /\ UNCHANGED <<pc, log, dl, pp, disk>>
  /\ UNCHANGED <<crawlVars, call, SCHEMAS>>

NextWebpage ==
  \/ Next
  \/ WebDryRun \/ WebProcess \/ WebReturn
  \/ NextProcess

SpecWebpage == InitWebpage /\ [][NextWebpage]_vars

\* --------------------------------------- helper functions called directly
\* the allowed_domains arguments: None, the empty set, one and two entries,
\* an entry in upper case
AllowedInputs ==
  {NoDomains, {}, {AB}, {<<"A", ".", "B">>}, {CD}, {AB, CD}}

SafeDomainCalls ==
  [pc : {"call"}, fn : {"is_safe_domain"}, url : DOMAIN Inputs,
   allowed : AllowedInputs, ret : {"unset"}]

ValidUrlCalls ==
  [pc : {"call"}, fn : {"is_valid_url"}, url : DOMAIN Inputs, ret : {"unset"}]

\* longest name built from NameTokens
MaxName == 3

\* the characters short names are built from: a letter, the dot, both
\* separators, the percent sign, two pairs of hexadecimal digits, '.pdf'
NameTokens == {"x", ".", "/", "\\", "%", "2e", "25", ".pdf"}

\* every name of up to MaxName tokens
ShortNames == UNION {[1..n -> NameTokens] : n \in 0..MaxName}

\* names of test_security.py: traversal with both separators, encoded
\* traversal, a NUL byte, the dangerous characters, an upper-case extension,
\* the combined attack
TestNames ==
  { <<".", ".", "/", ".", ".", "/", "etc", "/", "passwd">>,
    <<".", ".", "\\", ".", ".", "\\", "x", "\\", "etc">>,
    <<"%", "2e", "%", "2e", "%", "2f", "etc", "%", "2f", "passwd">>,
    <<"x", "NUL", ".pdf">>,
    <<"x", "<", ">", ":", "\"", "|", "?", "*", "x", ".pdf">>,
    <<"x", ".PDF">>,
    <<".", ".", "/", "%", "2e", "%", "2e", "%", "2f", ".", ".", "\\",
      "etc", "/", "passwd", "NUL", ".pdf">> }

\* names around max_length characters
LongNames ==
  { <<Run(MaxRun), ".pdf">>,
    <<Run(MaxRun)>>,
    <<Run(MaxRun), ".PDF">>,
    <<Run(max_length - 4), ".pdf">>,
    <<Run(max_length - 3), ".pdf">>,
    <<Run(max_length - 5), ".pdf", ".pdf">>,
    <<".", Run(max_length), "/", ".", Run(max_length), ".", "x">> }

SanitizeInputs == ShortNames \cup TestNames \cup LongNames

SanitizeCalls ==
  [pc : {"call"}, fn : {"sanitize_filename"}, name : SanitizeInputs,
   ret : {<<>>}, again : {<<>>}]

HelperCalls == SafeDomainCalls \cup ValidUrlCalls \cup SanitizeCalls

InitHelpers ==
  /\ cfg \in {c \in FreeConfigs :
                /\ c.url = "R" /\ c.recursion_depth = 0
                /\ c.allowed_domains = NoDomains
                /\ ~c.respect_robots /\ c.deduplicate}
  /\ pc = "api"
  /\ budget = 0
  /\ Quiet
  /\ dl = [pc |-> "none"]
  /\ pp = [pc |-> "none"]
  /\ disk = <<>>
  /\ web = [pc |-> "none"]
  /\ call \in HelperCalls
  /\ SCHEMAS = <<>>

\* is_safe_domain(url, allowed_domains) runs and returns
SafeDomainCall ==
  /\ call.pc = "call"
  /\ call.fn = "is_safe_domain"
  /\ call' = [call EXCEPT !.pc = "done",
                          !.ret = is_safe_domain(call.url, call.allowed)]
  /\ UNCHANGED <<pc, log, dl, pp, disk, web, SCHEMAS>>
  /\ UNCHANGED crawlVars

\* is_valid_url(url) runs and returns
ValidUrlCall ==
  /\ call.pc = "call"
  /\ call.fn = "is_valid_url"
  /\ call' = [call EXCEPT !.pc = "done", !.ret = is_valid_url(call.url)]
  /\ UNCHANGED <<pc, log, dl, pp, disk, web, SCHEMAS>>
  /\ UNCHANGED crawlVars

\* sanitize_filename(name) runs and returns
SanitizeCall ==
  /\ call.pc = "call"
  /\ call.fn = "sanitize_filename"
  /\ call' = [call EXCEPT !.pc = "done", !.ret = sanitize_filename(call.name)]
  /\ UNCHANGED <<pc, log, dl, pp, disk, web, SCHEMAS>>
  /\ UNCHANGED crawlVars

\* sanitize_filename runs on the name the first call returned
SanitizeAgain ==
  /\ call.pc = "done"
  /\ call.fn = "sanitize_filename"
  /\ call' = [call EXCEPT !.pc = "twice", !.again = sanitize_filename(call.ret)]
  /\ UNCHANGED <<pc, log, dl, pp, disk, web, SCHEMAS>>
  /\ UNCHANGED crawlVars

NextHelpers == SafeDomainCall \/ ValidUrlCall \/ SanitizeCall \/ SanitizeAgain

SpecHelpers == InitHelpers /\ [][NextHelpers]_vars

\* ------------------------------------------------- the schema registry
\* calls made on the registry in one run
MaxOps == 4

\* schema names
SchemaNames == {"first", "second"}

\* url_pattern values, as the tokens of the regular expression ('.*' is one
\* token, an escaped dot is part of the host's token): no pattern, a site,
\* a part of that site, another site
UrlPatterns ==
  { <<>>,
    <<"https", "://", "example.com", "/", ".*">>,
    <<"https", "://", "example.com", "/", "docs", "/", ".*">>,
    <<"https", "://", "old.com", "/", ".*">> }

\* the SiteSchema instances a caller builds
SiteSchemas ==
  [class : {"SiteSchema"}, name : SchemaNames, url_pattern : UrlPatterns]

\* an argument that is not a SiteSchema
NotASchema ==
  [class |-> "dict", name |-> "first", url_pattern |-> <<".*">>]

\* the URLs detect_schema is asked about
DetectUrls ==
  { <<"https", "://", "example.com", "/", "docs", "/", "page">>,
    <<"https", "://", "example.com", "/">>,
    <<"https", "://", "other.com", "/", "page">> }

\* detect_schema and get_schema returning None
NoSchema == [class |-> "None", name |-> "", url_pattern |-> <<>>]

\* re.compile(pattern).match(url): the pattern matches a prefix of the URL
RECURSIVE re_match(_, _)
re_match(pattern, url) ==
  IF pattern = <<>> THEN TRUE
  ELSE IF Head(pattern) = ".*"
    THEN \E k \in 0..Len(url) :
           re_match(Tail(pattern), SubSeq(url, k + 1, Len(url)))
  ELSE /\ url # <<>>
       /\ Head(url) = Head(pattern)
       /\ re_match(Tail(pattern), Tail(url))

\* SiteSchema.matches: no compiled pattern when url_pattern is empty
matches(schema, url) ==
  IF schema.url_pattern = <<>> THEN FALSE
  ELSE re_match(schema.url_pattern, url)

\* the keys of the dictionary
Keys(d) == {d[i].name : i \in DOMAIN d}

\* _SCHEMAS.get(name)
get_schema(d, name) ==
  IF name \in Keys(d)
    THEN d[CHOOSE i \in DOMAIN d : d[i].name = name].schema
    ELSE NoSchema

\* an entry: key, value, and the number of the register_schema call that
\* stored the value
Entry(schema, n) == [name |-> schema.name, schema |-> schema, at |-> n]

\* d[key] = value always adding an entry
DictAppend(d, schema, n) == Append(d, Entry(schema, n))

\* _SCHEMAS[schema.name] = schema: the value of a key the dictionary holds
\* is replaced where it stands, a new key goes to the end
DictSet(d, schema, n) ==
  IF schema.name \in Keys(d)
    THEN [i \in DOMAIN d |->
            IF d[i].name = schema.name THEN Entry(schema, n) ELSE d[i]]
    ELSE Append(d, Entry(schema, n))

\* del _SCHEMAS[name] removing nothing
DictKeep(d, name) == d

\* del _SCHEMAS[name]
DictDel(d, name) == SelectSeq(d, LAMBDA en : en.name # name)

\* the exception register_schema raises, "none" when it stores the schema
RegisterRaises(schema, overwrite, d) ==
  IF schema.class # "SiteSchema" THEN "TypeError"
  ELSE IF schema.name \in Keys(d) /\ ~overwrite THEN "ValueError"
  ELSE "none"

\* the first entry of the dictionary whose schema matches
detect_schema(d, url) ==
  LET hits == {i \in DOMAIN d : matches(d[i].schema, url)}
  IN IF hits = {} THEN NoSchema
     ELSE d[CHOOSE i \in hits : \A j \in hits : i <= j].schema

\* the names in the order sorted() gives them
SortedNames == <<"first", "new_key", "second">>

\* sorted(_SCHEMAS.keys())
list_schemas(d) == SelectSeq(SortedNames, LAMBDA name : name \in Keys(d))

\* name in _SCHEMAS
is_registered(d, name) == name \in Keys(d)

\* len(_SCHEMAS)
schema_count(d) == Len(d)

\* returning _SCHEMAS itself
get_all_schemas_itself(d) == [registry |-> TRUE, dict |-> d]

\* _SCHEMAS.copy(): a dictionary of its own with the same entries
get_all_schemas(d) == [registry |-> FALSE, dict |-> d]

\* what a caller may do to the dictionary it was returned: store a value
\* under a new key, delete a key, clear it
Mutated(d) ==
  {Append(d, [name |-> "new_key", schema |-> NotASchema, at |-> 0]), <<>>}
    \cup {DictDel(d, name) : name \in Keys(d)}

\* the registry is empty, no call was made
InitRegistry ==
  /\ cfg \in {c \in FreeConfigs :
                /\ c.url = "R" /\ c.recursion_depth = 0
                /\ c.allowed_domains = NoDomains
                /\ ~c.respect_robots /\ c.deduplicate}
  /\ pc = "api"
  /\ budget = 0
  /\ Quiet
  /\ dl = [pc |-> "none"]
  /\ pp = [pc |-> "none"]
  /\ disk = <<>>
  /\ web = [pc |-> "none"]
  /\ call = [pc |-> "idle", fn |-> "registry", n |-> 0]
  /\ SCHEMAS = <<>>

\* the functions of the registry module a run calls
RegistryFns ==
  {"registry", "register_schema", "unregister_schema", "clear_registry",
   "detect_schema", "get_all_schemas"}

\* a call on the registry may be made
RegistryOpen == call.fn \in RegistryFns /\ call.n < MaxOps

\* register_schema(schema, overwrite)
RegisterSchema ==
  /\ RegistryOpen
  /\ \E schema \in SiteSchemas \cup {NotASchema}, overwrite \in BOOLEAN :
       LET raised == RegisterRaises(schema, overwrite, SCHEMAS)
       IN /\ SCHEMAS' = IF raised = "none"
                          THEN DictSet(SCHEMAS, schema, call.n + 1)
                          ELSE SCHEMAS
          /\ call' = [pc |-> "done", fn |-> "register_schema",
                      n |-> call.n + 1, schema |-> schema,
                      overwrite |-> overwrite, raised |-> raised,
                      before |-> SCHEMAS]
  /\ UNCHANGED <<pc, log, dl, pp, disk, web>>
  /\ UNCHANGED crawlVars

\* unregister_schema(name)
UnregisterSchema ==
  /\ RegistryOpen
  /\ \E name \in SchemaNames :
       /\ SCHEMAS' = DictDel(SCHEMAS, name)
       /\ call' = [pc |-> "done", fn |-> "unregister_schema",
                   n |-> call.n + 1, name |-> name,
                   ret |-> (name \in Keys(SCHEMAS)), before |-> SCHEMAS]
  /\ UNCHANGED <<pc, log, dl, pp, disk, web>>
  /\ UNCHANGED crawlVars

\* clear_registry()
ClearRegistry ==
  /\ RegistryOpen
  /\ SCHEMAS' = <<>>
  /\ call' = [pc |-> "done", fn |-> "clear_registry", n |-> call.n + 1,
              before |-> SCHEMAS]
  /\ UNCHANGED <<pc, log, dl, pp, disk, web>>
  /\ UNCHANGED crawlVars

\* detect_schema(url)
DetectSchema ==
  /\ RegistryOpen
  /\ \E url \in DetectUrls :
       call' = [pc |-> "done", fn |-> "detect_schema", n |-> call.n + 1,
                url |-> url, ret |-> detect_schema(SCHEMAS, url),
                before |-> SCHEMAS]
  /\ UNCHANGED <<pc, log, dl, pp, disk, web, SCHEMAS>>
  /\ UNCHANGED crawlVars

\* get_all_schemas()
GetAllSchemas ==
  /\ RegistryOpen
  /\ call' = [pc |-> "done", fn |-> "get_all_schemas", n |-> call.n + 1,
              ret |-> get_all_schemas(SCHEMAS), before |-> SCHEMAS]
  /\ UNCHANGED <<pc, log, dl, pp, disk, web, SCHEMAS>>
  /\ UNCHANGED crawlVars

\* the caller changes the dictionary get_all_schemas returned; the registry
\* changes with it only when the two are one object
MutateReturned ==
  /\ call.fn = "get_all_schemas"
  /\ call.pc = "done"
  /\ \E d \in Mutated(call.ret.dict) \ {call.ret.dict} :
       /\ call' = [call EXCEPT !.pc = "mutated", !.ret.dict = d]
       /\ SCHEMAS' = IF call.ret.registry THEN d ELSE SCHEMAS
  /\ UNCHANGED <<pc, log, dl, pp, disk, web>>
  /\ UNCHANGED crawlVars

NextRegistry ==
  \/ RegisterSchema \/ UnregisterSchema \/ ClearRegistry \/ DetectSchema
  \/ GetAllSchemas \/ MutateReturned

SpecRegistry == InitRegistry /\ [][NextRegistry]_vars

\* ===================================================================
\* Properties
\* ===================================================================
Min(a, b) == IF a < b THEN a ELSE b

\* the page requests issued so far, as positions of the log
Gets == {k \in DOMAIN log : log[k].ev = "get"}

GetUrls == {log[k].arg : k \in Gets}

\* the allowed set of the crawl: the one given, else the root URL's own host
GivenOrRootHost ==
  IF cfg.allowed_domains = NoDomains
    THEN {SplitColonHead(LowerSeq(U[cfg.url].netloc))}
    ELSE cfg.allowed_domains

\* host of a URL as is_safe_domain reads it
HostOf(u) == SplitColonHead(LowerSeq(U[u].netloc))

\* the allowed sets a crawl can run with
AllowedSets ==
  LET configs == FreeConfigs \cup ChainConfigs
  IN ({c.allowed_domains : c \in configs} \ {NoDomains})
       \cup {{HostOf(c.url)} : c \in configs}

\* the URLs is_safe_domain accepts, per allowed set
SafeUnder == [a \in AllowedSets |-> {u \in AllUrls : is_safe_domain(u, a)}]

\* the URLs the anchor loop takes for PDF links
PdfUrls == {l \in AllUrls : is_valid_url(l) /\ IsPdfLink(l)}

\* the URLs the anchor loop takes for page links
PageUrls == {l \in AllUrls : is_valid_url(l) /\ ~IsPdfLink(l)}

\* the links read on the successfully fetched pages
LinksServed == UNION {Range(sv[2]) : sv \in served}

\* the PDF links read on the successfully fetched pages
PdfsServed == LinksServed \cap PdfUrls

NoRepeat(seq) == \A i, j \in DOMAIN seq : seq[i] = seq[j] => i = j

\* C1: on every finite link graph, cycles included, and for every requested
\* recursion_depth, the top-level call terminates and returns a list of URLs.
C1_Terminates == <>(pc = "done" /\ result \in Seq(AllUrls))

\* a finished crawl that fetched two pages linking to each other (or a page
\* linking to itself)
C1_Witness ==
  /\ pc = "done"
  /\ \E p, q \in served : p[1] \in Range(q[2]) /\ q[1] \in Range(p[2])

C2_WitnessRootOutside ==
  /\ pc = "done"
  /\ cfg.url = "R"
  /\ cfg.allowed_domains = {CD}

\* C3: with deduplicate=True the returned list holds no PDF URL twice, and
\* holds every PDF link read on a successfully fetched page that no robots
\* check refused.
C3_DedupNoRepeatAndComplete ==
  (pc = "done" /\ cfg.deduplicate) =>
    /\ NoRepeat(result)
    /\ \A l \in PdfsServed :
         (\A k \in DOMAIN checks : checks[k].url = l => checks[k].ret)
           => l \in Range(result)

\* a finished deduplicating crawl in which two different pages link to the
\* same PDF
C3_Witness ==
  /\ pc = "done"
  /\ cfg.deduplicate
  /\ \E p, q \in served :
       /\ p[1] # q[1]
       /\ \E l \in Range(p[2]) \cap Range(q[2]) :
            l \in PdfUrls /\ l \in Range(result)

\* C4: no page is fetched more than min(d, 5) hops below the root, every call
\* runs with the depth budget min(d, 5) minus its hops (so d > 5 is d = 5),
\* and with d = 0 only the root page is requested.
C4_DepthBound ==
  /\ \A k \in Gets : log[k].info <= Min(cfg.recursion_depth, MAX_RECURSION_DEPTH)
  /\ \A n \in DOMAIN stack :
       stack[n].depth = Min(cfg.recursion_depth, MAX_RECURSION_DEPTH) - stack[n].hops
  /\ cfg.recursion_depth = 0 => (GetUrls \subseteq {cfg.url} /\ Cardinality(Gets) <= 1)

\* a finished crawl asked for more than 5 levels: a page 5 hops down was
\* fetched, it links to a further page, and that page was not requested
C4_Witness ==
  /\ pc = "done"
  /\ cfg.recursion_depth > MAX_RECURSION_DEPTH
  /\ \E k \in Gets : log[k].info = MAX_RECURSION_DEPTH
  /\ "C6" \in LinksServed
  /\ "C6" \notin GetUrls

\* C5: with robots checking off every PDF link read on a fetched page is in
\* the result whatever its host, and no page is requested on the host of a
\* PDF that lies outside the allowed set.
C5_PdfCollectedWhateverHost ==
  (pc = "done" /\ ~cfg.respect_robots) =>
    \A l \in PdfsServed :
      /\ l \in Range(result)
      /\ l \notin SafeUnder[GivenOrRootHost]
           => \A u \in GetUrls : HostOf(u) # HostOf(l)

\* a finished crawl, following links, whose root page carries a PDF link and a
\* page link of a host outside the allowed set: the PDF is returned
C5_Witness ==
  /\ pc = "done"
  /\ ~cfg.respect_robots
  /\ cfg.recursion_depth >= 1
  /\ cfg.allowed_domains = NoDomains
  /\ \E sv \in served : sv[1] = cfg.url /\ {"DX", "E"} \subseteq Range(sv[2])
  /\ "DX" \in Range(result)

\* the first occurrences of a sequence, in order
RECURSIVE FirstOccurrences(_)
FirstOccurrences(seq) ==
  IF seq = <<>> THEN <<>>
  ELSE LET front == FirstOccurrences(SubSeq(seq, 1, Len(seq) - 1))
           last == seq[Len(seq)]
       IN IF last \in Range(front) THEN front ELSE Append(front, last)

\* the lists of the calls in progress, outermost first
RECURSIVE Flatten(_)
Flatten(st) ==
  IF st = <<>> THEN <<>>
  ELSE Flatten(SubSeq(st, 1, Len(st) - 1)) \o st[Len(st)].pdf_links

IsPrefix(a, b) == Len(a) <= Len(b) /\ SubSeq(b, 1, Len(a)) = a

Passing(l) == l \in PdfUrls

\* C6: with deduplicate=True the result is the PDF links in the order the
\* depth-first traversal first met them: at any moment the lists of the calls
\* in progress, outermost first, are the first occurrences met so far, and a
\* page's own PDF links, in anchor order, precede what its sub-pages return.
C6_FirstDiscoveryOrder ==
  cfg.deduplicate =>
    /\ pc = "running" => Flatten(stack) = FirstOccurrences(discovered)
    /\ pc = "done" => result = FirstOccurrences(discovered)
    /\ (pc = "done" /\ ~cfg.respect_robots) =>
         \A sv \in served :
           sv[1] = cfg.url =>
             IsPrefix(FirstOccurrences(SelectSeq(sv[2], Passing)), result)

\* a finished deduplicating crawl whose root page links a followed page before
\* a PDF: the root's PDF comes first, the sub-page's PDF after it
C6_Witness ==
  /\ pc = "done"
  /\ cfg.deduplicate
  /\ Len(result) = 2
  /\ \E sv \in served :
       /\ sv[1] = cfg.url
       /\ Len(sv[2]) = 2
       /\ sv[2][1] \in GetUrls
       /\ sv[2][2] = result[1]
  /\ \E sv \in served : sv[1] # cfg.url /\ result[2] \in Range(sv[2])

\* C7: a failed page request never makes the crawl raise; a failing root gives
\* the empty list; every PDF link collected on any page is in the result, and
\* every link queued on a fetched page that has depth left is still requested.
C7_FetchFailureIsLocal ==
  /\ pc # "raised"
  /\ pc = "done" =>
       /\ cfg.url \in failed => result = <<>>
       /\ Range(discovered) \subseteq Range(result)
       /\ \A k \in Gets :
            log[k].info < Min(cfg.recursion_depth, MAX_RECURSION_DEPTH) =>
              \A sv \in served :
                sv[1] = log[k].arg =>
                  \A l \in Range(sv[2]) :
                    (l \in PageUrls /\ l \in SafeUnder[GivenOrRootHost])
                      => l \in GetUrls

\* a finished crawl in which a page request failed and a page requested after
\* it gave a PDF that is in the result
C7_Witness ==
  /\ pc = "done"
  /\ \E k, m \in Gets :
       /\ k < m
       /\ log[k].arg \in failed
       /\ \E sv \in served :
            /\ sv[1] = log[m].arg
            /\ \E l \in Range(sv[2]) : Passing(l) /\ l \in Range(result)

\* the robots.txt requests issued so far, as positions of the log
RobotsGets == {k \in DOMAIN log : log[k].ev = "robots"}

\* the ways a robots.txt fetch ends that the claims speak of: status 200,
\* another status, a network failure (RequestException)
Settled == {"200", "status", "reqexc"}

\* C8: once the robots.txt fetch of a domain has returned 200, returned another
\* status or failed with a network failure, its parser is cached and no
\* further request for that domain is issued; the cache holds exactly the
\* domains so fetched, one entry each.
C8_OneFetchPerDomain ==
  /\ \A k, m \in RobotsGets :
       (k < m /\ log[k].info \in Settled) => log[m].arg # log[k].arg
  /\ DOMAIN robots_cache = {log[k].arg : k \in {m \in RobotsGets : log[m].info \in Settled}}
  /\ \A j, k \in DOMAIN checks :
       (j < k /\ checks[j].kind \in Settled
          /\ RobotsDomain(checks[k].url) = RobotsDomain(checks[j].url))
         => checks[k].kind = "cached"

\* three calls: the first fetch of a domain fails with a network failure, a
\* second call for that domain asks about another URL, a third call is for
\* another domain; two requests in all
C8_Witness ==
  /\ Len(checks) = 3
  /\ checks[1].kind = "reqexc"
  /\ RobotsDomain(checks[2].url) = RobotsDomain(checks[1].url)
  /\ checks[2].url # checks[1].url
  /\ RobotsDomain(checks[3].url) # RobotsDomain(checks[1].url)
  /\ Cardinality(RobotsGets) = 2
  /\ Cardinality(DOMAIN robots_cache) = 2

\* C9: when the robots.txt fetch of a domain returns a status other than 200
\* or fails with a network failure, that call and every later call for the
\* domain return true, for every URL and user agent.
C9_FailedFetchAllowsAll ==
  \A j, k \in DOMAIN checks :
    (j <= k /\ checks[j].kind \in {"status", "reqexc"}
       /\ RobotsDomain(checks[k].url) = RobotsDomain(checks[j].url))
      => checks[k].ret

\* the fetch answered with a status other than 200; a later call asks about
\* another URL of the domain for another agent
C9_Witness ==
  /\ Len(checks) >= 2
  /\ checks[1].kind = "status"
  /\ checks[2].kind = "cached"
  /\ checks[2].url # checks[1].url
  /\ checks[2].agent # checks[1].agent
  /\ checks[1].ret /\ checks[2].ret

\* the URLs of the checks that returned true, in order
RECURSIVE Admitted(_)
Admitted(cs) ==
  IF cs = <<>> THEN <<>>
  ELSE LET front == Admitted(SubSeq(cs, 1, Len(cs) - 1))
           last == cs[Len(cs)]
       IN IF last.ret THEN Append(front, last.url) ELSE front

\* C10 as stated: with respect_robots=True no URL for which a check_robots_txt
\* call of the crawl returned false is in the result.
C10_NoRefusedUrlInResult ==
  (pc = "done" /\ cfg.respect_robots) =>
    \A u \in Range(result) :
      \A k \in DOMAIN checks : checks[k].url = u => checks[k].ret

\* C10, amended: with respect_robots=True a PDF link is collected only at an
\* anchor whose check returned true, and a link whose check returns false is
\* passed over there without any other effect on the crawl; with
\* respect_robots=False no robots.txt is requested and every PDF link read is
\* collected.
C10_RefusedLinkIsSkipped ==
  /\ pc # "raised"
  /\ cfg.respect_robots =>
       /\ discovered = Admitted(checks)
       /\ Range(Flatten(stack)) \subseteq Range(Admitted(checks))
       /\ pc = "done" => Range(result) = Range(Admitted(checks))
  /\ ~cfg.respect_robots =>
       /\ checks = <<>>
       /\ RobotsGets = {}
       /\ robots_cache = <<>>
       /\ pc = "done" => PdfsServed \subseteq Range(result)

\* a finished crawl respecting robots: one PDF link was refused and is not in
\* the result, another was allowed and is
C10_Witness ==
  /\ pc = "done"
  /\ cfg.respect_robots
  /\ \E j, k \in DOMAIN checks :
       /\ ~checks[j].ret /\ checks[j].url \notin Range(result)
       /\ checks[k].ret /\ checks[k].url \in Range(result)

\* the attempts of the download_pdf call, as positions of the log
PdfGets == {k \in DOMAIN log : log[k].ev = "pdfget"}

\* the backoff sleeps of the download_pdf call, in order
Sleeps == SelectSeq(log, LAMBDA e : e.ev = "backoff")

\* C11: download_pdf makes at most max_retries GET attempts; when every attempt
\* fails it makes exactly max_retries attempts and returns None; no attempt
\* follows a successful one; the call never raises.
C11_AtMostMaxRetriesAttempts ==
  /\ Cardinality(PdfGets) <= dl.max_retries
  /\ Cardinality(PdfGets) = Len(dl.outcomes)
  /\ \A k \in DOMAIN dl.outcomes :
       dl.outcomes[k] \in DownloadBodies => k = Len(dl.outcomes) /\ dl.pc = "done"
  /\ dl.pc = "done" =>
       /\ dl.ret \in {"None", "content"}
       /\ (\A k \in DOMAIN dl.outcomes : dl.outcomes[k] \in DownloadFailures)
            => (Cardinality(PdfGets) = dl.max_retries /\ dl.ret = "None")

\* three attempts allowed, three made, all failed, None returned
C11_Witness ==
  /\ dl.pc = "done"
  /\ dl.max_retries = 3
  /\ Len(dl.outcomes) = 3
  /\ \A k \in DOMAIN dl.outcomes : dl.outcomes[k] \in DownloadFailures
  /\ dl.ret = "None"

\* a call that succeeded at its second attempt out of three
C11_WitnessSuccess ==
  /\ dl.pc = "done"
  /\ dl.max_retries = 3
  /\ Len(dl.outcomes) = 2
  /\ dl.ret = "content"

\* C12: after failed attempt k and before attempt k+1 there is exactly one
\* sleep of min(2^(k-1), 10) seconds, and none after the last failed attempt
\* or after a success: n attempts give n-1 sleeps 1, 2, 4, 8, 10, 10, ...
C12_BackoffSleeps ==
  /\ \A k \in DOMAIN Sleeps :
       Sleeps[k].info = (IF k = 1 THEN 1 ELSE IF k = 2 THEN 2 ELSE IF k = 3 THEN 4
                         ELSE IF k = 4 THEN 8 ELSE 10)
  /\ \A j \in DOMAIN log :
       /\ (log[j].ev = "backoff") =>
            /\ j > 1 /\ log[j - 1].ev = "pdfget"
            /\ dl.outcomes[log[j - 1].info] \in DownloadFailures
            /\ (j < Len(log) => log[j + 1].ev = "pdfget")
       /\ (log[j].ev = "pdfget" /\ j > 1) => log[j - 1].ev = "backoff"
  /\ dl.pc = "done" =>
       /\ Len(log) > 0 => log[Len(log)].ev = "pdfget"
       /\ Len(dl.outcomes) > 0 => Len(Sleeps) = Len(dl.outcomes) - 1

\* six attempts, all failed: the sleeps were 1, 2, 4, 8, 10
C12_Witness ==
  /\ dl.pc = "done"
  /\ Len(dl.outcomes) = 6
  /\ Len(Sleeps) = 5
  /\ Sleeps[5].info = 10

\* the URLs whose documents process_pdfs wrote, and the paths written
WrittenUrls == {pp.writes[k].url : k \in DOMAIN pp.writes}

WrittenPaths == {pp.writes[k].path : k \in DOMAIN pp.writes}

\* C13: process_pdfs reports success exactly when at least one output file
\* was written during the call, in separate and in merge mode.
C13_SuccessIffFileWritten ==
  pp.pc = "done" => (pp.ret = "True" <=> pp.writes # <<>>)

\* C14: in separate mode a failure while opening or writing one PDF is
\* confined to it: every other surviving PDF, before and after the failing
\* one, is written.
C14_SaveFailureConfined ==
  (pp.pc = "done" /\ pp.mode = "separate") =>
    \A k \in DOMAIN pp.valid :
      (pp.valid[k].kind = "pdf" /\ pp.valid[k].url \notin pp.unsaved)
        => pp.valid[k].url \in WrittenUrls

\* C15: with an empty URL list or a mode other than 'separate' and 'merge'
\* the call returns failure at once: the fetcher is not called, no directory
\* and no file is created.
C15_BadInputFailsEarly ==
  (pp.pc \notin {"none", "call"}
     /\ (pp.links = <<>> \/ pp.mode \notin {"separate", "merge"})) =>
    /\ pp.pc = "done"
    /\ pp.ret = "False"
    /\ pp.fetched = <<>>
    /\ ~pp.made_dir
    /\ pp.writes = <<>>
    /\ disk = pp.before

\* a call with URLs that pass the filter and an unknown mode has returned
C15_Witness ==
  /\ pp.pc = "done"
  /\ pp.mode = "bogus"
  /\ Len(pp.links) >= 2
  /\ \E k \in DOMAIN pp.links : should_download_pdf(pp.links[k], NoSize, pp.filter)

\* a call with an empty list and a valid mode has returned
C15_WitnessEmpty ==
  /\ pp.pc = "done"
  /\ pp.links = <<>>
  /\ pp.mode = "merge"

\* the PDF URLs of the model
PdfDocs == DocUrls \cup {"D1", "DX"}

\* per filter configuration, the URLs should_download_pdf accepts without a
\* size
Accepts ==
  [f \in Filters \cup WebFilters |->
     {u \in PdfDocs : should_download_pdf(u, NoSize, f)}]

\* the URLs process_pdfs keeps after the name and URL filters (437-450)
FilteredLinks ==
  IF pp.filter.on
    THEN SelectSeq(pp.links, LAMBDA l : l \in Accepts[pp.filter])
    ELSE pp.links

\* pairs of URLs, the first with the smaller numeric key
NumericBefore ==
  {ab \in DocUrls \X DocUrls :
     TupleLess(extract_numeric_key(ab[1]), extract_numeric_key(ab[2]))}

\* pairs of URLs, the first with the smaller lower-cased filename
AlphaBefore ==
  {ab \in DocUrls \X DocUrls : StrLess(AlphaKey(ab[1]), AlphaKey(ab[2]))}

\* a process_pdfs call that went past its checks and sorted its list
Sorting == pp.pc \in {"download", "save", "done"} /\ pp.made_dir

\* for lists without repeated elements, as the URL lists of the calls are
IsPermutation(a, b) ==
  /\ Len(a) = Len(b)
  /\ Range(a) = Range(b)

\* x comes before y in seq whenever both occur
ComesBefore(seq, x, y) ==
  \A i, j \in DOMAIN seq : (seq[i] = x /\ seq[j] = y) => i < j

\* C16: without a custom key, download_pdf is called on the filtered URLs in
\* sorted order: numeric ascending by the tuple of the digit runs of the
\* filename with digit-free names last, alpha ascending and alpha_desc
\* descending by the lower-cased filename, 'none' or absent in input order;
\* the list is sorted before the first download.
C16_DownloadsInSortedOrder ==
  (Sorting /\ pp.sort_key = NoKey) =>
    /\ IsPermutation(pp.order, FilteredLinks)
    /\ \A k \in DOMAIN pp.fetched : pp.fetched[k] = pp.order[k]
    /\ pp.pc \in {"save", "done"} => pp.fetched = pp.order
    /\ pp.sort_by \in {"None", "none"} => pp.order = FilteredLinks
    /\ pp.sort_by = "numeric" =>
         /\ \A i, j \in DOMAIN pp.order :
              i < j => <<pp.order[j], pp.order[i]>> \notin NumericBefore
         /\ ComesBefore(pp.order, "A2", "A21")
         /\ ComesBefore(pp.order, "A21", "A10")
         /\ ComesBefore(pp.order, "A10", "AD")
    /\ pp.sort_by = "alpha" =>
         /\ \A i, j \in DOMAIN pp.order :
              i < j => <<pp.order[j], pp.order[i]>> \notin AlphaBefore
         /\ ComesBefore(pp.order, "A10", "A2")
         /\ ComesBefore(pp.order, "A2", "A21")
         /\ ComesBefore(pp.order, "A21", "AD")
    /\ pp.sort_by = "alpha_desc" =>
         /\ \A i, j \in DOMAIN pp.order :
              i < j => <<pp.order[i], pp.order[j]>> \notin AlphaBefore
         /\ ComesBefore(pp.order, "AD", "A21")
         /\ ComesBefore(pp.order, "A21", "A2")
         /\ ComesBefore(pp.order, "A2", "A10")

\* a numeric sort that moved c2.pdf in front of c10.pdf and put D.PDF last,
\* all three downloaded
C16_Witness ==
  /\ pp.pc = "save"
  /\ pp.sort_key = NoKey /\ pp.sort_by = "numeric"
  /\ pp.links = <<"AD", "A10", "A2">>
  /\ pp.fetched = <<"A2", "A10", "AD">>

\* an alpha_desc sort, all downloaded: D.PDF, then c2.pdf, then c10.pdf
C16_WitnessDesc ==
  /\ pp.pc = "save"
  /\ pp.sort_key = NoKey /\ pp.sort_by = "alpha_desc"
  /\ pp.links = <<"A10", "AD", "A2">>
  /\ pp.fetched = <<"AD", "A2", "A10">>

\* C17: a custom sort_key given together with sort_by takes precedence: the
\* order of downloads and writes is ascending by sort_key alone, whatever
\* sort_by is.
C17_CustomKeyAlone ==
  (Sorting /\ pp.sort_key # NoKey) =>
    /\ IsPermutation(pp.order, FilteredLinks)
    /\ \A i, j \in DOMAIN pp.order :
         i < j => CustomRank[pp.order[i]] <= CustomRank[pp.order[j]]
    /\ \A k \in DOMAIN pp.fetched : pp.fetched[k] = pp.order[k]

\* the files in the write directory right before the k-th write of the call
FilesBefore(k) ==
  DOMAIN pp.before \cup {pp.writes[j].path : j \in 1..(k - 1)}

\* base_n.pdf
Numbered(base_name, n) == base_name \o <<"_", Decimal(n), ".pdf">>

\* C18: in separate mode every write goes to a path that did not exist right
\* before it, so no file already in the directory and no file written
\* earlier in the call is overwritten; the name is the sanitized basename
\* when that is free, else base_k.pdf for the smallest free k >= 1; each
\* file holds the content of its own URL.
C18_SeparateNeverOverwrites ==
  pp.mode = "separate" =>
    /\ \A f \in DOMAIN pp.before : f \in DOMAIN disk /\ disk[f] = pp.before[f]
    /\ \A k \in DOMAIN pp.writes :
         LET w == pp.writes[k]
             taken == FilesBefore(k)
             file_name == sanitize_filename(Basename(w.url))
             base_name == SplitextRoot(file_name)
         IN /\ ~w.existed
            /\ w.path \notin taken
            /\ file_name \notin taken => w.path = file_name
            /\ file_name \in taken =>
                 \E n \in 1..9 :
                   /\ w.path = Numbered(base_name, n)
                   /\ \A m \in 1..(n - 1) : Numbered(base_name, m) \in taken
            /\ w.path \in DOMAIN disk
            /\ disk[w.path] = Pages(w.url)

\* c2.pdf and c2_1.pdf were there before the call; the two URLs named c2.pdf
\* were written to c2_2.pdf and c2_3.pdf
C18_Witness ==
  /\ pp.pc = "done" /\ pp.mode = "separate"
  /\ DOMAIN pp.before = {<<"c", "2", ".pdf">>, <<"c", "2", "_", "1", ".pdf">>}
  /\ Len(pp.writes) = 2
  /\ pp.writes[1].url = "A2" /\ pp.writes[1].path = <<"c", "2", "_", "2", ".pdf">>
  /\ pp.writes[2].url = "B2" /\ pp.writes[2].path = <<"c", "2", "_", "3", ".pdf">>
  /\ disk[pp.writes[2].path] = Pages("B2")

\* x/c2_1.pdf was written first, so y/c2.pdf after x/c2.pdf went to c2_2.pdf
C18_WitnessGenerated ==
  /\ pp.pc = "done" /\ pp.mode = "separate" /\ pp.before = <<>>
  /\ Len(pp.writes) = 3
  /\ pp.writes[3].url = "B2" /\ pp.writes[3].path = <<"c", "2", "_", "2", ".pdf">>

\* the pages of the surviving documents, in list order
SurvivingPages(contents) ==
  LET RECURSIVE Cat(_)
      Cat(cs) == IF cs = <<>> THEN <<>>
                 ELSE (IF Head(cs).kind = "pdf" THEN Pages(Head(cs).url) ELSE <<>>)
                        \o Cat(Tail(cs))
  IN Cat(contents)

\* C19: a merge-mode call that writes output leaves in the output file
\* exactly the pages merged in that call, whether or not a file of that name
\* existed before.
C19_MergeTruncates ==
  (pp.pc = "done" /\ pp.mode = "merge" /\ pp.writes # <<>>) =>
    /\ MergedName \in DOMAIN disk
    /\ disk[MergedName] = SurvivingPages(pp.valid)

\* the pages of the URLs of `order` that are in `keep`, in the order of `order`
RECURSIVE PagesInOrder(_, _)
PagesInOrder(order, keep) ==
  IF order = <<>> THEN <<>>
  ELSE (IF Head(order) \in keep THEN Pages(Head(order)) ELSE <<>>)
         \o PagesInOrder(Tail(order), keep)

\* the URLs whose content reached the merge as a readable document
Survivors == {pp.valid[k].url : k \in {j \in DOMAIN pp.valid : pp.valid[j].kind = "pdf"}}

\* C20: in merge mode the output document's pages are those of the surviving
\* documents in the order of the filtered and sorted list, failed or invalid
\* downloads being skipped, and exactly one output file is produced.
C20_MergedPagesInListOrder ==
  (pp.pc = "done" /\ pp.mode = "merge" /\ pp.ret = "True") =>
    /\ DOMAIN disk = DOMAIN pp.before \cup {MergedName}
    /\ disk[MergedName] = PagesInOrder(pp.order, Survivors)

\* what holds of the code: the pages written by the call are in list order,
\* after whatever the output file held before
C20_AppendedPagesInListOrder ==
  (pp.pc = "done" /\ pp.mode = "merge" /\ pp.writes # <<>>) =>
    /\ DOMAIN disk = DOMAIN pp.before \cup {MergedName}
    /\ disk[MergedName] =
         (IF MergedName \in DOMAIN pp.before THEN pp.before[MergedName] ELSE <<>>)
           \o PagesInOrder(pp.order, Survivors)

\* the URLs for which download_pdf returned bytes that start with %PDF
MagicUrls ==
  {pp.contents[k].url :
     k \in {j \in DOMAIN pp.contents : pp.contents[j].kind \in {"corrupt", "pdf"}}}

\* the URLs whose pages are in a file
UrlsIn(pages) == {pages[k][1] : k \in DOMAIN pages}

\* C21: nothing is written or merged from content that is None or does not
\* start with %PDF; when no downloaded content passes, the call returns False
\* and writes no file.
C21_OnlyMagicContentIsSaved ==
  /\ \A k \in DOMAIN pp.valid : pp.valid[k].url \in MagicUrls
  /\ \A k \in DOMAIN pp.writes :
       pp.mode = "separate" => pp.writes[k].url \in MagicUrls
  /\ \A f \in DOMAIN disk :
       UrlsIn(disk[f]) \subseteq MagicUrls \cup UrlsIn(OldPages)
  /\ (pp.pc = "done" /\ pp.made_dir /\ MagicUrls = {}) =>
       /\ pp.ret = "False"
       /\ pp.writes = <<>>
       /\ disk = pp.before

\* separate mode, two URLs: the first came back as HTML and was dropped, the
\* second was written
C21_Witness ==
  /\ pp.pc = "done" /\ pp.mode = "separate"
  /\ Len(pp.contents) = 2
  /\ pp.contents[1].kind = "html"
  /\ Len(pp.writes) = 1 /\ pp.writes[1].url = pp.contents[2].url

\* the only download returned None: failure, nothing written
C21_WitnessNone ==
  /\ pp.pc = "done" /\ pp.made_dir
  /\ Len(pp.contents) = 1 /\ pp.contents[1].kind = "None"
  /\ pp.ret = "False" /\ disk = pp.before

\* some pattern of the set matches the text, case-insensitively
SomeMatch(text, patterns) ==
  \E pat \in patterns : fnmatch(LowerSeq(text), LowerSeq(pat))

\* per filter configuration, the URLs that pass its filename and URL
\* patterns
PatternPass ==
  [f \in Filters \cup WebFilters |->
     {u \in PdfDocs :
        /\ f.filename_include # {} => SomeMatch(Basename(u), f.filename_include)
        /\ ~SomeMatch(Basename(u), f.filename_exclude)
        /\ f.url_include # {} => SomeMatch(UrlText(u), f.url_include)
        /\ ~SomeMatch(UrlText(u), f.url_exclude)}]

\* the URL passes the filename and the URL patterns of the call's filter
PassesPatterns(u) == u \in PatternPass[pp.filter]

\* C22: with a filter configuration, download_pdf is called only on URLs
\* whose filename matches an include pattern (or there is none) and no
\* exclude pattern, and likewise for the URL; an exclude match overrides an
\* include match; a URL that fails is never downloaded, one that passes is.
C22_OnlyFilteredUrlsAreFetched ==
  pp.filter.on =>
    /\ \A u \in Range(pp.fetched) : PassesPatterns(u)
    /\ pp.pc \in {"save", "done"} /\ pp.made_dir =>
         \A u \in Range(pp.links) : PassesPatterns(u) => u \in Range(pp.fetched)
    /\ pp.filter.filename_exclude = {<<"*", "_", "*">>} =>
         Range(pp.fetched) \subseteq {"A2", "B2"}
    /\ pp.filter.url_exclude = {<<"*", "1", "0", "*">>} =>
         Range(pp.fetched) \subseteq {"A2", "AD", "A21"}
    /\ pp.filter.filename_exclude = {<<"d", "*">>} => "AD" \notin Range(pp.fetched)

\* c2_1.pdf matches the include pattern c2* and the exclude pattern *_*: it
\* was not downloaded, c2.pdf was
C22_Witness ==
  /\ pp.pc = "done" /\ pp.filter.on
  /\ pp.filter.filename_include = {<<"c", "2", "*">>}
  /\ pp.links = <<"A21", "A2">>
  /\ pp.fetched = <<"A2">>

\* /x/c10.pdf matches the URL include pattern */x/* and the URL exclude
\* pattern *10*, /y/c2.pdf matches no include pattern
C22_WitnessUrl ==
  /\ pp.pc = "done" /\ pp.filter.on
  /\ pp.filter.url_include # {}
  /\ pp.links = <<"A10", "B2", "AD">>
  /\ pp.fetched = <<"AD">>

\* a byte length within the size bounds of the call's filter, both inclusive
WithinBounds(size) ==
  /\ pp.filter.min_size # NoSize => pp.filter.min_size <= size
  /\ pp.filter.max_size # NoSize => size <= pp.filter.max_size

\* a size bound is configured
Bounded == pp.filter.on /\ (pp.filter.min_size # NoSize \/ pp.filter.max_size # NoSize)

\* the downloaded contents that start with %PDF
MagicContents == SelectSeq(pp.contents, LAMBDA c : c.kind \in {"corrupt", "pdf"})

\* C23: with min_size or max_size set, the bounds are checked after download
\* against the byte length, inclusively: nothing outside the bounds is
\* written or merged, nothing within them is discarded for its size, and
\* when none remains the call returns False.
C23_SizeBoundsAfterDownload ==
  Bounded =>
    /\ pp.pc \in {"save", "done"} /\ pp.made_dir =>
         \A u \in Range(pp.links) : PassesPatterns(u) => u \in Range(pp.fetched)
    /\ \A k \in DOMAIN pp.valid : WithinBounds(SizeOf(pp.valid[k]))
    /\ \A f \in DOMAIN disk :
         \A u \in UrlsIn(disk[f]) \ UrlsIn(OldPages) :
           WithinBounds(SizeOf([kind |-> "pdf", url |-> u]))
    /\ pp.pc = "save" =>
         pp.valid = SelectSeq(MagicContents, LAMBDA c : WithinBounds(SizeOf(c)))
    /\ (pp.pc = "done" /\ Len(pp.contents) = Len(pp.order) /\ pp.made_dir
          /\ \A k \in DOMAIN MagicContents : ~WithinBounds(SizeOf(MagicContents[k])))
         => pp.ret = "False" /\ pp.writes = <<>> /\ disk = pp.before
    /\ (pp.filter.min_size = 6 /\ pp.filter.max_size = 7) =>
         /\ "A2" \notin {pp.writes[k].url : k \in DOMAIN pp.writes}
         /\ (pp.pc = "save" /\ [kind |-> "pdf", url |-> "B2"] \in Range(pp.contents))
              => [kind |-> "pdf", url |-> "B2"] \in Range(pp.valid)
         /\ (pp.pc = "save" /\ [kind |-> "pdf", url |-> "A10"] \in Range(pp.contents))
              => [kind |-> "pdf", url |-> "A10"] \in Range(pp.valid)

\* bounds 6..7: the 5-byte document was downloaded and not written, those of
\* 6 and of 7 bytes were written
C23_Witness ==
  /\ pp.pc = "done" /\ pp.mode = "separate"
  /\ pp.filter.min_size = 6 /\ pp.filter.max_size = 7
  /\ pp.fetched = <<"A2", "B2", "A10">>
  /\ Len(pp.writes) = 2
  /\ pp.writes[1].url = "B2" /\ pp.writes[2].url = "A10"

\* every download is outside the bounds: failure, nothing written
C23_WitnessNone ==
  /\ pp.pc = "done" /\ pp.filter.max_size = 5
  /\ pp.fetched = <<"B2", "A10">>
  /\ pp.contents[1].kind = "pdf" /\ pp.contents[2].kind = "pdf"
  /\ pp.ret = "False" /\ pp.writes = <<>>

\* C24: a dry run returns {urls, count} with count the length of urls, never
\* calls download_pdf and creates no file or directory, for every mode,
\* depth and filter configuration.
C24_DryRunTouchesNothing ==
  (web.pc # "none" /\ web.dry_run) =>
    /\ pp = [pc |-> "none"]
    /\ dl = [pc |-> "none"]
    /\ disk = <<>>
    /\ \A k \in DOMAIN log : log[k].ev \notin {"pdfget", "backoff"}
    /\ web.pc \in {"crawl", "done"}
    /\ web.pc = "done" =>
         /\ DOMAIN web.ret = {"urls", "count"}
         /\ web.ret.count = Len(web.ret.urls)
         /\ Range(web.ret.urls) \subseteq Range(result)

\* a finished dry run in merge mode that found two PDFs, of which the
\* filter dropped x.PDF by its name and kept d1.pdf whatever its size
C24_Witness ==
  /\ web.pc = "done" /\ web.dry_run
  /\ web.mode = "merge" /\ web.filter.min_size = 6
  /\ cfg.recursion_depth > 0
  /\ Len(result) = 2
  /\ web.ret = [urls |-> <<"D1">>, count |-> 1]

\* the same call without dry_run downloads and writes
C24_WitnessWet ==
  /\ web.pc = "done" /\ ~web.dry_run
  /\ web.ret = "True" /\ disk # <<>> /\ pp.fetched # <<>>

\* the last position of seq that holds the token, 0 if there is none
LastOf(seq, token) ==
  LET hits == {i \in DOMAIN seq : seq[i] = token}
  IN IF hits = {} THEN 0 ELSE CHOOSE i \in hits : \A j \in hits : j <= i

\* the host of a network location: without user-info and port, lower-cased
HostOfNetloc(netloc) ==
  LET hostport == SubSeq(netloc, LastOf(netloc, "@") + 1, Len(netloc))
      host == IF hostport # <<>> /\ hostport[1] = "["
                THEN SubSeq(hostport, 2, FirstOf(hostport, {"]"}) - 1)
                ELSE SubSeq(hostport, 1, FirstOf(hostport, {":"}) - 1)
  IN LowerSeq(host)

\* the host of an input string, empty when it has none or does not parse
InputHost(k) == IF U[k].error THEN <<>> ELSE HostOfNetloc(U[k].netloc)

\* the host equals, or ends with '.' followed by, a lower-cased allowed entry
HostAllowed(host, allowed) ==
  \E al \in allowed :
    host = LowerSeq(al) \/ EndsWith(host, <<".">> \o LowerSeq(al))

\* a finished is_safe_domain call
SafeDomainDone == call.pc = "done" /\ call.fn = "is_safe_domain"

\* C25: for an allowed set that is not None, is_safe_domain is true exactly
\* when the URL's host (network location without user-info and port,
\* lower-cased) equals or is a dot-suffix subdomain of a lower-cased allowed
\* entry; it is true for every URL when the set is None, false for every URL
\* when the set is empty or the URL has no host.
C25_SafeDomainIffHostAllowed ==
  SafeDomainDone =>
    IF call.allowed = NoDomains THEN call.ret = TRUE
    ELSE IF call.allowed = {} \/ InputHost(call.url) = <<>> THEN call.ret = FALSE
    ELSE call.ret = HostAllowed(InputHost(call.url), call.allowed)

\* what holds of the code: the claim, for URLs whose network location has
\* no user-info
C25_HoldsWithoutUserInfo ==
  (SafeDomainDone /\ ~U[call.url].error /\ "@" \notin Range(U[call.url].netloc))
    => C25_SafeDomainIffHostAllowed

\* a finished is_valid_url call
ValidUrlDone == call.pc = "done" /\ call.fn = "is_valid_url"

\* C26: is_valid_url is true exactly for the URLs with scheme http or https
\* and a non-empty host; false for every other scheme, for strings without
\* scheme and for strings that do not parse; it always returns a boolean.
C26_ValidIffHttpWithHost ==
  ValidUrlDone =>
    /\ call.ret \in BOOLEAN
    /\ call.ret = (/\ ~U[call.url].error
                   /\ U[call.url].scheme \in {"http", "https"}
                   /\ InputHost(call.url) # <<>>)

\* what holds of the code: the claim, for the strings whose network location
\* is empty or names a host
C26_HoldsWhenNetlocNamesHost ==
  (ValidUrlDone /\ (U[call.url].netloc = <<>> \/ InputHost(call.url) # <<>>))
    => C26_ValidIffHttpWithHost


\* --- sanitize_filename
\* a sanitize_filename call has returned
SanitizeDone ==
  call.pc \in {"done", "twice"} /\ call.fn = "sanitize_filename"

\* the second sanitize_filename call has returned
SanitizeTwice == call.pc = "twice" /\ call.fn = "sanitize_filename"

\* the name holds a percent escape: '%' and two hexadecimal digits
HasEscape(name) ==
  \E i \in 1..(Len(name) - 1) : name[i] = "%" /\ name[i + 1] \in DOMAIN HexPairs

\* C27 as stated: sanitize_filename is idempotent, for every input x
\* sanitize_filename(sanitize_filename(x)) equals sanitize_filename(x)
C27_SanitizeIdempotent ==
  SanitizeTwice => call.again = call.ret

\* C27 as the code has it: sanitize_filename(sanitize_filename(x)) equals
\* sanitize_filename(x) for every input x whose sanitized name holds no
\* percent escape; escapes are decoded once per call, so a name that still
\* holds one is decoded further by the second call
C27_IdempotentWithoutEscape ==
  (SanitizeTwice /\ ~HasEscape(call.ret)) => call.again = call.ret

\* the combined attack of test_security.py sanitized twice: both calls
\* return passwd.pdf
C27_Witness ==
  /\ SanitizeTwice
  /\ call.name = <<".", ".", "/", "%", "2e", "%", "2e", "%", "2f", ".", ".",
                   "\\", "etc", "/", "passwd", "NUL", ".pdf">>
  /\ call.ret = <<"passwd", ".pdf">>
  /\ ~HasEscape(call.ret)
  /\ call.again = call.ret

\* a name encoded twice: '%252e' gives '%2e.pdf', and that gives 'pdf.pdf'
C27_WitnessTwiceEncoded ==
  /\ SanitizeTwice
  /\ call.name = <<"%", "25", "2e">>
  /\ call.ret = <<"%", "2e", ".pdf">>
  /\ call.again = <<"pdf", ".pdf">>


\* the characters '..' occur in the name
HasDotDot(name) ==
  \E i \in 1..(Len(name) - 1) :
    name[i] = "." /\ name[i + 1] \in {".", ".pdf", ".PDF"}

\* the name holds no '/', no '\' and no NUL character
NoSeparator(name) == Range(name) \cap {"/", "\\", "NUL"} = {}

\* the first character of the name is a dot
StartsWithDot(name) == name # <<>> /\ Head(name) \in {".", ".pdf", ".PDF"}

\* the name ends in '.pdf', in either case
EndsInPdf(name) == name # <<>> /\ Lower(name[Len(name)]) = ".pdf"

\* os.path.join(write_dir, name) is a path within write_dir
StaysInside(name) ==
  /\ PathBasename(name) = name
  /\ name \notin {<<>>, <<".">>, <<".", ".">>}

C28_WitnessDots ==
  /\ SanitizeDone
  /\ call.name = <<"x", ".", ".pdf">>
  /\ call.ret = call.name
  /\ HasDotDot(call.ret)


\* --- the schema registry
\* register_schema has returned or raised
RegisterDone == call.pc = "done" /\ call.fn = "register_schema"

\* no two entries of the dictionary have one name
NamesUnique(d) == \A i, j \in DOMAIN d : d[i].name = d[j].name => i = j

\* the schemas under every name but one are the same in both dictionaries
SameButFor(d, e, name) ==
  \A other \in SchemaNames \ {name} : get_schema(d, other) = get_schema(e, other)

\* C29: register_schema with a name the registry holds and overwrite=False
\* raises ValueError and leaves the registry as it was, the earlier schema
\* still under that name; with overwrite=True the new schema replaces the
\* entry; an argument that is not a SiteSchema raises TypeError with the
\* registry as it was; the registry never holds two schemas under one name
C29_RegisterKeepsNamesUnique ==
  /\ NamesUnique(SCHEMAS)
  /\ RegisterDone =>
       LET schema == call.schema
           taken == schema.name \in Keys(call.before)
       IN /\ schema.class # "SiteSchema" =>
               call.raised = "TypeError" /\ SCHEMAS = call.before
          /\ (schema.class = "SiteSchema" /\ taken /\ ~call.overwrite) =>
               /\ call.raised = "ValueError"
               /\ SCHEMAS = call.before
               /\ get_schema(SCHEMAS, schema.name)
                    = get_schema(call.before, schema.name)
          /\ (schema.class = "SiteSchema" /\ taken /\ call.overwrite) =>
               /\ call.raised = "none"
               /\ get_schema(SCHEMAS, schema.name) = schema
               /\ Keys(SCHEMAS) = Keys(call.before)
               /\ SameButFor(SCHEMAS, call.before, schema.name)

\* a second schema named 'first' is refused while another one is registered
\* too: the registry still holds the earlier schema
C29_Witness ==
  /\ RegisterDone
  /\ call.raised = "ValueError"
  /\ call.schema.name = "first"
  /\ Len(SCHEMAS) = 2
  /\ get_schema(SCHEMAS, "first") # call.schema

\* a schema named 'first' replaced by another one
C29_WitnessOverwrite ==
  /\ RegisterDone
  /\ call.raised = "none"
  /\ call.overwrite
  /\ get_schema(call.before, "first") \notin {NoSchema, call.schema}
  /\ get_schema(SCHEMAS, "first") = call.schema

\* a dict given with overwrite=True while its name is registered
C29_WitnessTypeError ==
  /\ RegisterDone
  /\ call.raised = "TypeError"
  /\ call.overwrite
  /\ call.schema.name \in Keys(SCHEMAS)

\* detect_schema has returned
DetectDone == call.pc = "done" /\ call.fn = "detect_schema"

\* the entries whose schema matches the URL
Matching(d, url) == {i \in DOMAIN d : matches(d[i].schema, url)}

\* C30: detect_schema(url) returns the first schema, in registration order,
\* whose url_pattern matches the URL, and None when no registered schema
\* matches or the registry is empty; the schema returned is registered
C30_DetectFirstRegistered ==
  DetectDone =>
    LET hits == Matching(SCHEMAS, call.url)
    IN IF hits = {} THEN call.ret = NoSchema
       ELSE \E i \in hits :
              /\ call.ret = SCHEMAS[i].schema
              /\ \A j \in hits : SCHEMAS[i].at <= SCHEMAS[j].at

\* the values of the dictionary stand in the order they were registered in
InRegistrationOrder(d) ==
  \A i, j \in DOMAIN d : i < j => d[i].at < d[j].at

\* C30 holds while no registered schema took the place of an earlier one
\* of its name
C30_HoldsWithoutOverwrite ==
  (DetectDone /\ InRegistrationOrder(SCHEMAS)) =>
    LET hits == Matching(SCHEMAS, call.url)
    IN IF hits = {} THEN call.ret = NoSchema
       ELSE \E i \in hits :
              /\ call.ret = SCHEMAS[i].schema
              /\ \A j \in hits : SCHEMAS[i].at <= SCHEMAS[j].at

\* test_detect_first_match_wins: of two matching schemas the one registered
\* first is returned
C30_WitnessFirstWins ==
  /\ DetectDone
  /\ Len(SCHEMAS) = 2
  /\ InRegistrationOrder(SCHEMAS)
  /\ Matching(SCHEMAS, call.url) = {1, 2}
  /\ call.ret = SCHEMAS[1].schema

\* a schema that replaced an earlier one of its name is returned although
\* a matching schema was registered before it
C30_WitnessOverwritten ==
  /\ DetectDone
  /\ Matching(SCHEMAS, call.url) = {1, 2}
  /\ SCHEMAS[1].at > SCHEMAS[2].at
  /\ call.ret = SCHEMAS[1].schema


\* unregister_schema has returned
UnregisterDone == call.pc = "done" /\ call.fn = "unregister_schema"

\* clear_registry has returned
ClearDone == call.pc = "done" /\ call.fn = "clear_registry"

\* what unregister_schema and clear_registry leave behind
RemovalLeaves ==
  /\ UnregisterDone =>
       /\ call.ret = (call.name \in Keys(call.before))
       /\ Keys(SCHEMAS) = Keys(call.before) \ {call.name}
       /\ get_schema(SCHEMAS, call.name) = NoSchema
       /\ SameButFor(SCHEMAS, call.before, call.name)
  /\ ClearDone => SCHEMAS = <<>> /\ Keys(SCHEMAS) = {}

\* a register_schema call without overwrite that follows the removal of its
\* schema's name stores the schema
RegisterAfterRemoval ==
  (/\ UnregisterDone
   /\ call'.fn = "register_schema"
   /\ call'.schema.class = "SiteSchema"
   /\ call'.schema.name = call.name
   /\ ~call'.overwrite)
  => /\ call'.raised = "none"
     /\ get_schema(SCHEMAS', call.name) = call'.schema

\* C31: unregister_schema(name) returns true exactly when name was
\* registered; afterwards name is not registered, every other entry is as it
\* was and the name can be registered again without overwrite;
\* clear_registry leaves the registry empty from any state
C31_RemovalLeavesTheRest ==
  [](RemovalLeaves) /\ [][RegisterAfterRemoval]_vars

\* one of two registered schemas is removed: the call returns true and the
\* other schema stays
C31_Witness ==
  /\ UnregisterDone
  /\ call.ret
  /\ Len(call.before) = 2
  /\ Len(SCHEMAS) = 1
  /\ SCHEMAS[1].name # call.name

\* a name that is not registered: the call returns false
C31_WitnessAbsent ==
  /\ UnregisterDone
  /\ ~call.ret
  /\ SCHEMAS = call.before
  /\ SCHEMAS # <<>>

\* a registry of two schemas cleared
C31_WitnessClear ==
  /\ ClearDone
  /\ Len(call.before) = 2
  /\ SCHEMAS = <<>>

\* C32: within one top-level crawl no page URL is requested twice, and every
\* URL requested (failed fetches included) is already in visited.
C32_EachPageRequestedOnce ==
  /\ \A i, j \in Gets : log[i].arg = log[j].arg => i = j
  /\ GetUrls \subseteq visited

\* a finished crawl in which two fetched pages link to the same page, which
\* was requested
C32_Witness ==
  /\ pc = "done"
  /\ \E p, q \in served :
       /\ p[1] # q[1]
       /\ \E l \in Range(p[2]) \cap Range(q[2]) \cap GetUrls : l # cfg.url

\* a finished crawl in which one fetched page links twice to a followed page
C32_WitnessTwiceOnPage ==
  /\ pc = "done"
  /\ \E p \in served :
       \E a, b \in DOMAIN p[2] :
         a # b /\ p[2][a] = p[2][b] /\ p[2][a] \in GetUrls \ {p[1]}

\* a finished crawl in which a page whose fetch failed is linked again from a
\* page fetched later
C32_WitnessFailed ==
  /\ pc = "done"
  /\ \E l \in failed \ {cfg.url} :
       \E k \in Gets :
         /\ log[k].arg = l
         /\ \E n \in Gets : n > k /\ <<log[n].arg, <<l>>>> \in served

\* the sleeps of the crawl
CrawlSleeps == {k \in DOMAIN log : log[k].ev = "sleep"}

\* C33: the crawl sleeps request_delay once right before each recursive page
\* visit and never before the root request: every sleep lasts request_delay
\* and is followed at once by the request of the page slept for, every
\* request below the root comes right after such a sleep, the root request
\* has none before it, and a finished crawl has slept once per followed page.
C33_SleepBeforeEachFollowedPage ==
  /\ \A k \in CrawlSleeps :
       /\ log[k].info = cfg.request_delay
       /\ k > 1
       /\ k < Len(log) =>
            log[k + 1].ev = "get" /\ log[k + 1].arg = log[k].arg
  /\ \A k \in Gets :
       IF log[k].info = 0
         THEN \A n \in CrawlSleeps : n > k
         ELSE /\ k > 1
              /\ log[k - 1].ev = "sleep"
              /\ log[k - 1].arg = log[k].arg
  /\ \A k \in Gets :
       (\E i \in Gets : i < k) => log[k - 1].ev = "sleep"
  /\ pc = "done" =>
       /\ Cardinality(CrawlSleeps) = Cardinality({k \in Gets : log[k].info > 0})
       /\ {log[k].arg : k \in CrawlSleeps} = GetUrls \ {cfg.url}

\* a finished crawl that followed two pages and read more page links than it
\* followed
C33_Witness ==
  /\ pc = "done"
  /\ Cardinality(CrawlSleeps) = 2
  /\ \E p \in served :
       \E a, b \in DOMAIN p[2] :
         a # b /\ p[2][a] = p[2][b] /\ p[2][a] \in GetUrls \ {cfg.url}

\* a finished crawl with request_delay 0 that followed a page
C33_WitnessNoDelay ==
  /\ pc = "done"
  /\ cfg.request_delay = 0
  /\ CrawlSleeps # {}

\* how often x stands in seq
Times(x, seq) == Cardinality({i \in DOMAIN seq : seq[i] = x})

\* the successfully fetched pages that link to l
PagesLinking(l) == {sv \in served : l \in Range(sv[2])}

\* the robots checks that refused l
Refusals(l) == {k \in DOMAIN checks : checks[k].url = l /\ ~checks[k].ret}

C34_WitnessCollapsed ==
  /\ pc = "done"
  /\ ~cfg.deduplicate
  /\ \E l \in PdfUrls :
       /\ Times(l, result) = 1
       /\ \E sv \in served : Times(l, sv[2]) = 2

\* a finished crawl without deduplication in which robots refused a PDF link
\* of a fetched page
C34_WitnessRefused ==
  /\ pc = "done"
  /\ ~cfg.deduplicate
  /\ cfg.respect_robots
  /\ \E l \in PdfUrls :
       /\ PagesLinking(l) # {}
       /\ Refusals(l) # {}
       /\ l \notin Range(result)

\* the step is a check_robots_txt call whose outer handler caught an exception
RobotsCallRaised ==
  /\ Len(checks') = Len(checks) + 1
  /\ checks'[Len(checks')].raised

\* C35: an unexpected error at any point of check_robots_txt makes the call
\* return true and leaves the robots cache exactly as it was before the call.
C35_ErrorLeavesCacheAlone ==
  [][RobotsCallRaised =>
       /\ checks'[Len(checks')].ret
       /\ robots_cache' = robots_cache]_vars

\* C35 amended: an unexpected error makes the call return true and changes no
\* entry the cache holds; the cache is exactly what it was when the error
\* comes out of the request (or the parsing of its body) or the domain was
\* cached already, while an error out of the can_fetch query that follows a
\* fetch leaves the parser just fetched in the cache under the URL's domain.
C35_ErrorChangesNoEntry ==
  [][RobotsCallRaised =>
       LET c == checks'[Len(checks')]
           domain == RobotsDomain(c.url)
       IN /\ c.ret
          /\ \A d \in DOMAIN robots_cache :
               d \in DOMAIN robots_cache' /\ robots_cache'[d] = robots_cache[d]
          /\ DOMAIN robots_cache' \subseteq DOMAIN robots_cache \cup {domain}
          /\ c.kind \in {"exc", "cached"} => robots_cache' = robots_cache
          /\ c.kind \notin {"exc", "cached"} =>
               /\ domain \notin DOMAIN robots_cache
               /\ domain \in DOMAIN robots_cache'
               /\ CanFetchRaises(robots_cache'[domain], c.agent)]_vars

\* the request of robots.txt raised an unexpected exception: true was
\* returned, the cache of the other domain is kept and the domain asked
\* about has no entry
C35_Witness ==
  /\ Len(checks) = 2
  /\ checks[1].kind = "200"
  /\ checks[2].kind = "exc" /\ checks[2].raised /\ checks[2].ret
  /\ DOMAIN robots_cache = {RobotsDomain(checks[1].url)}

\* can_fetch raised on a parser found in the cache
C35_WitnessCached ==
  \E k \in DOMAIN checks : checks[k].raised /\ checks[k].kind = "cached"

\* can_fetch raised on the parser just fetched: the parser is in the cache
C35_WitnessAfterFetch ==
  /\ Len(checks) = 1
  /\ checks[1].raised /\ checks[1].kind = "200" /\ checks[1].ret
  /\ RobotsDomain(checks[1].url) \in DOMAIN robots_cache

\* the step requests a page below the root
FollowsPage ==
  /\ Len(log') = Len(log) + 1
  /\ log'[Len(log')].ev = "get"
  /\ log'[Len(log')].info > 0

\* C38: with respect_robots=True no page below the root is requested for
\* which check_robots_txt would return false: when the cache holds the rules
\* of the page's domain at the time of the request, they allow the page for
\* the crawl's user agent.
C38_FollowedPagesAllowed ==
  [][(cfg.respect_robots /\ FollowsPage
        /\ RobotsDomain(log'[Len(log')].arg) \in DOMAIN robots_cache)
       => can_fetch(robots_cache[RobotsDomain(log'[Len(log')].arg)],
                    cfg.user_agent, log'[Len(log')].arg)]_vars

\* the lower-cased path component of the URL ends in ".pdf"
PathIsPdf(u) == EndsWith(LowerSeq(U[u].path), <<".pdf">>)

\* C36: a resolved link is treated as a PDF exactly when the lower-cased
\* path of its URL ends in ".pdf", whatever its query string: every link
\* collected as a PDF has such a path, no link queued as a page has one, and
\* with robots checking off every valid link with such a path that a fetched
\* page carries is in the result.
C36_PdfByPath ==
  /\ \A l \in Range(discovered) : PathIsPdf(l)
  /\ \A n \in DOMAIN stack :
       \A l \in Range(stack[n].other_links) : ~PathIsPdf(l)
  /\ (pc = "done" /\ ~cfg.respect_robots) =>
       \A l \in LinksServed :
         (is_valid_url(l) /\ PathIsPdf(l)) => l \in Range(result)

\* the anchors of page p on the fixed site of the crawl
SiteAnchors(p) ==
  IF p \in DOMAIN FixedSites[cfg.site] THEN FixedSites[cfg.site][p] ELSE <<>>

\* the pages a chain of at most k page links through allowed-domain pages
\* reaches from the root
RECURSIVE ReachWithin(_)
ReachWithin(k) ==
  IF k = 0 THEN {cfg.url}
  ELSE LET near == ReachWithin(k - 1)
       IN near \cup
            ((UNION {Range(SiteAnchors(p)) : p \in near})
               \cap PageUrls \cap SafeUnder[GivenOrRootHost])

\* C37: when every page fetch succeeds and robots checking is off, the result
\* holds every PDF link of every page that a chain of at most
\* min(recursion_depth, 5) page links reaches from the root.
C37_AllPdfsWithinDepth ==
  (/\ pc = "done" /\ cfg.site \in DOMAIN FixedSites
   /\ ~cfg.respect_robots /\ failed = {})
    => \A p \in ReachWithin(Min(cfg.recursion_depth, MAX_RECURSION_DEPTH)) :
         \A l \in Range(SiteAnchors(p)) \cap PdfUrls : l \in Range(result)

\* a download_pdfs_from_webpage call without dry_run, with a valid mode, has
\* returned
WetDone == web.pc = "done" /\ ~web.dry_run /\ ValidMode(web.mode)

\* a dry run has returned
DryDone == web.pc = "done" /\ web.dry_run

\* what the name and URL filters of process_pdfs keep of the crawl's result
Kept == FilterLinks(result, web.filter)

\* C39: the urls list a dry run returns equals, as a sequence, the list of
\* URLs the same call without dry_run passes to the PDF fetcher: after the
\* same crawl the dry run returns, and the other call fetches, the links the
\* filters keep, in the order of the crawl.
C39_DryRunListsTheDownloads ==
  /\ DryDone => web.ret.urls = Kept
  /\ WetDone => pp.fetched = Kept

\* C39 amended: the fetcher is passed the URLs the dry run lists, each as
\* often, in the order sort_by and sort_key give them; the two sequences are
\* equal when no sorting is requested.
C39_DryRunListsTheDownloadsUnsorted ==
  /\ DryDone => web.ret.urls = Kept /\ web.ret.count = Len(Kept)
  /\ WetDone =>
       /\ pp.fetched = SortLinks(Kept, web.sort_by, web.sort_key)
       /\ \A u \in AllUrls : Times(u, pp.fetched) = Times(u, Kept)
       /\ get_sort_key(web.sort_by, web.sort_key) = "none" => pp.fetched = Kept

\* a call without dry_run and without sorting that passed two URLs to the
\* fetcher after its filter dropped none
C39_Witness ==
  /\ WetDone
  /\ web.sort_by = "None"
  /\ Len(pp.fetched) = 2

\* a sorting call that passed the two URLs found to the fetcher in the other
\* order
C39_WitnessSorted ==
  /\ WetDone
  /\ web.sort_by = "alpha"
  /\ Len(pp.fetched) = 2
  /\ pp.fetched # result

\* a dry run that lists fewer URLs than the crawl found
C39_WitnessDryRun ==
  /\ DryDone
  /\ web.sort_by = "alpha"
  /\ web.ret.count = 1
  /\ Len(result) = 2

\* the names a caller may ask the registry about
AskedNames == SchemaNames \cup {"new_key"}

\* C40: after any sequence of register_schema, unregister_schema and
\* clear_registry calls, schema_count() is the length of list_schemas(),
\* is_registered(n) holds exactly when get_schema(n) is not None, the schema
\* get_schema(n) returns has name n, and get_all_schemas() returns the
\* entries of the registry in a dictionary whose mutation leaves the registry
\* as it was.
C40_AccessorsAgree ==
  /\ schema_count(SCHEMAS) = Len(list_schemas(SCHEMAS))
  /\ Range(list_schemas(SCHEMAS)) = Keys(SCHEMAS)
  /\ \A name \in AskedNames :
       /\ is_registered(SCHEMAS, name) <=> get_schema(SCHEMAS, name) # NoSchema
       /\ get_schema(SCHEMAS, name) # NoSchema
            => get_schema(SCHEMAS, name).name = name
  /\ (call.fn = "get_all_schemas" /\ call.pc = "done")
       => call.ret.dict = SCHEMAS
  /\ (call.fn = "get_all_schemas" /\ call.pc = "mutated")
       => SCHEMAS = call.before /\ call.ret.dict # SCHEMAS

\* two schemas are registered and the caller stored a new key in the
\* dictionary get_all_schemas returned
C40_Witness ==
  /\ call.fn = "get_all_schemas"
  /\ call.pc = "mutated"
  /\ Len(SCHEMAS) = 2
  /\ "new_key" \in Keys(call.ret.dict)

\* the caller cleared the dictionary returned for a registry of one schema
C40_WitnessCleared ==
  /\ call.fn = "get_all_schemas"
  /\ call.pc = "mutated"
  /\ Len(SCHEMAS) = 1
  /\ call.ret.dict = <<>>

\* a register_schema call raised on a registry that holds a schema
C40_WitnessRaised ==
  /\ RegisterDone
  /\ call.raised = "ValueError"
  /\ schema_count(SCHEMAS) = 1
  /\ list_schemas(SCHEMAS) = <<"second">>

====
